---- MODULE Spec2Model ----
(***************************************************************************)
(* Model of the multi-loan chatbot (src/loan_app.py and                    *)
(* src/loan_services/*.py): the per-turn conversation controller            *)
(* chat_message, the per-product field validators, the deterministic        *)
(* fallback extractors and the verdict policy.                              *)
(*                                                                          *)
(* Text is modelled by TLA+ strings, read character by character with      *)
(* SubSeq.  Python floats are modelled by integers: every amount the model  *)
(* handles has an integral value.  Characters outside ASCII in the source   *)
(* texts (the rupee sign, emojis, the en dash) are written in ASCII.        *)
(***************************************************************************)
EXTENDS Integers, Sequences, FiniteSets, TLC

(***************************************************************************)
(* Text helpers: Python str methods used by the source.                    *)
(***************************************************************************)
Char(s, i) == SubSeq(s, i, i)

LowerLetters == "abcdefghijklmnopqrstuvwxyz"
UpperLetters == "ABCDEFGHIJKLMNOPQRSTUVWXYZ"
DigitChars == "0123456789"

CharsOf(s) == {Char(s, i) : i \in 1..Len(s)}

LowerSet == CharsOf(LowerLetters)
UpperSet == CharsOf(UpperLetters)
LetterSet == LowerSet \cup UpperSet
DigitSet == CharsOf(DigitChars)
\* \s of the re module, restricted to the white space the messages use
SpaceSet == {" ", "\t", "\n"}
\* \w of the re module (ASCII)
WordSet == LetterSet \cup DigitSet \cup {"_"}

LowerOf == [c \in UpperSet |-> Char(LowerLetters, CHOOSE k \in 1..26 : Char(UpperLetters, k) = c)]
UpperOf == [c \in LowerSet |-> Char(UpperLetters, CHOOSE k \in 1..26 : Char(LowerLetters, k) = c)]
DigitOf == [c \in DigitSet |-> (CHOOSE k \in 1..10 : Char(DigitChars, k) = c) - 1]

LowerChar(c) == IF c \in UpperSet THEN LowerOf[c] ELSE c
UpperChar(c) == IF c \in LowerSet THEN UpperOf[c] ELSE c

RECURSIVE StrLower(_)
\* str.lower()
StrLower(s) ==
    IF Len(s) <= 1 THEN (IF s = "" THEN "" ELSE LowerChar(s))
    ELSE StrLower(SubSeq(s, 1, Len(s) \div 2)) \o StrLower(SubSeq(s, Len(s) \div 2 + 1, Len(s)))

\* sub in s
StrContains(s, sub) ==
    \E i \in 1..(Len(s) - Len(sub) + 1) : SubSeq(s, i, i + Len(sub) - 1) = sub

StrEndsWith(s, suf) ==
    Len(s) >= Len(suf) /\ SubSeq(s, Len(s) - Len(suf) + 1, Len(s)) = suf

StrStartsWith(s, pre) ==
    Len(s) >= Len(pre) /\ SubSeq(s, 1, Len(pre)) = pre

\* str.lstrip(): the text after its k leading white space characters
StrLStrip(s) ==
    SubSeq(s, 1 + (CHOOSE k \in 0..Len(s) :
                      /\ k = Len(s) \/ Char(s, k + 1) \notin SpaceSet
                      /\ \A j \in 1..k : Char(s, j) \in SpaceSet),
           Len(s))

\* str.rstrip(): the text before its k trailing white space characters
StrRStrip(s) ==
    SubSeq(s, 1, Len(s) - (CHOOSE k \in 0..Len(s) :
                              /\ k = Len(s) \/ Char(s, Len(s) - k) \notin SpaceSet
                              /\ \A j \in 0..(k - 1) : Char(s, Len(s) - j) \in SpaceSet))

\* str.strip()
StrStrip(s) == StrLStrip(StrRStrip(s))

RECURSIVE StrRemove(_, _)
\* every character of the set cs removed (re.sub(r'[cs]+', '', s))
StrRemove(s, cs) ==
    IF Len(s) <= 1 THEN (IF s \in cs THEN "" ELSE s)
    ELSE StrRemove(SubSeq(s, 1, Len(s) \div 2), cs)
         \o StrRemove(SubSeq(s, Len(s) \div 2 + 1, Len(s)), cs)

RECURSIVE StrKeep(_, _)
\* only the characters of the set cs kept (re.sub(r'[^cs]', '', s))
StrKeep(s, cs) ==
    IF Len(s) <= 1 THEN (IF s \in cs THEN s ELSE "")
    ELSE StrKeep(SubSeq(s, 1, Len(s) \div 2), cs)
         \o StrKeep(SubSeq(s, Len(s) \div 2 + 1, Len(s)), cs)

RECURSIVE StrReplaceChar(_, _, _)
\* str.replace(a, b) for a single character a
StrReplaceChar(s, a, b) ==
    IF Len(s) <= 1 THEN (IF s = a THEN b ELSE s)
    ELSE StrReplaceChar(SubSeq(s, 1, Len(s) \div 2), a, b)
         \o StrReplaceChar(SubSeq(s, Len(s) \div 2 + 1, Len(s)), a, b)

RECURSIVE StrReplace(_, _, _)
\* str.replace(a, b) for a non-empty string a
StrReplace(s, a, b) ==
    IF Len(s) < Len(a) THEN s
    ELSE IF SubSeq(s, 1, Len(a)) = a
         THEN b \o StrReplace(SubSeq(s, Len(a) + 1, Len(s)), a, b)
         ELSE Head(s) \o StrReplace(Tail(s), a, b)

RECURSIVE TitleFrom(_, _)
\* str.title(): a letter is upper-cased after a non-letter, lower-cased after a letter
TitleFrom(s, prevLetter) ==
    IF s = "" THEN ""
    ELSE LET c == Head(s)
         IN (IF c \in LetterSet
             THEN (IF prevLetter THEN LowerChar(c) ELSE UpperChar(c))
             ELSE c) \o TitleFrom(Tail(s), c \in LetterSet)

StrTitle(s) == TitleFrom(s, FALSE)

RECURSIVE SplitFrom(_, _)
\* str.split(): the maximal runs of non-space characters
SplitFrom(s, cur) ==
    IF s = "" THEN (IF cur = "" THEN <<>> ELSE <<cur>>)
    ELSE IF Head(s) \in SpaceSet
         THEN (IF cur = "" THEN <<>> ELSE <<cur>>) \o SplitFrom(Tail(s), "")
         ELSE SplitFrom(Tail(s), cur \o Head(s))

StrSplit(s) == SplitFrom(s, "")

AllIn(s, cs) == \A i \in 1..Len(s) : Char(s, i) \in cs

\* str.isdigit()
StrIsDigit(s) == s # "" /\ AllIn(s, DigitSet)

RECURSIVE DigitsToInt(_, _)
DigitsToInt(s, acc) ==
    IF s = "" THEN acc ELSE DigitsToInt(Tail(s), acc * 10 + DigitOf[Head(s)])

\* int(s) for a string of digits
StrToInt(s) == DigitsToInt(s, 0)

RECURSIVE Pow10(_)
Pow10(k) == IF k = 0 THEN 1 ELSE 10 * Pow10(k - 1)

RECURSIVE NatToStr(_)
\* str(n) for a natural number n
NatToStr(n) ==
    IF n < 10 THEN Char(DigitChars, n + 1)
    ELSE NatToStr(n \div 10) \o Char(DigitChars, (n % 10) + 1)

RECURSIVE GroupThousands(_)
\* f"{n:,}" applied to the digits of n
GroupThousands(d) ==
    IF Len(d) <= 3 THEN d
    ELSE GroupThousands(SubSeq(d, 1, Len(d) - 3)) \o "," \o SubSeq(d, Len(d) - 2, Len(d))

(***************************************************************************)
(* Regular expressions of Python's re module.  A pattern is a tree; the    *)
(* matcher returns, for a subject s and a start position i, the sequence   *)
(* of all the ways the pattern matches there, in the order in which the    *)
(* backtracking matcher of re tries them (the branches of | from left to   *)
(* right, the longest run first for a greedy repetition, the shortest      *)
(* first for a lazy one), so that the head of the sequence is the match re *)
(* reports.  A way is <<end, groups>>: the position after the match and    *)
(* the <<start, end>> of every capture group (<<0, 0>> for a group that    *)
(* did not take part).                                                     *)
(***************************************************************************)
MaxGroups == 2
ReInf == 999

ReLit(str) == [k |-> "lit", str |-> str]
\* a literal under re.IGNORECASE
ReILit(str) == [k |-> "ilit", str |-> str]
ReSet(cs) == [k |-> "set", cs |-> cs]
ReNotSet(cs) == [k |-> "nset", cs |-> cs]
ReAny == [k |-> "any"]
ReCat(rs) == [k |-> "cat", rs |-> rs]
ReAlt(rs) == [k |-> "alt", rs |-> rs]
ReRep(r, lo, hi) == [k |-> "rep", r |-> r, lo |-> lo, hi |-> hi, greedy |-> TRUE]
ReLazy(r, lo, hi) == [k |-> "rep", r |-> r, lo |-> lo, hi |-> hi, greedy |-> FALSE]
ReGroup(n, r) == [k |-> "grp", n |-> n, r |-> r]
ReBol == [k |-> "bol"]
ReEol == [k |-> "eol"]
ReWordB == [k |-> "wb"]

ReStar(r) == ReRep(r, 0, ReInf)
RePlus(r) == ReRep(r, 1, ReInf)
ReOpt(r) == ReRep(r, 0, 1)
\* .*?
ReLazyAny == ReLazy(ReAny, 0, ReInf)
ReDigit == ReSet(DigitSet)
ReSpace == ReSet(SpaceSet)
\* an alternation of literals
ReWords(ws) == ReAlt([j \in 1..Len(ws) |-> ReLit(ws[j])])
ReIWords(ws) == ReAlt([j \in 1..Len(ws) |-> ReILit(ws[j])])

NoGroups == [n \in 1..MaxGroups |-> <<0, 0>>]

IsWordAt(s, i) == i >= 1 /\ i <= Len(s) /\ Char(s, i) \in WordSet

ReFail == [ok |-> FALSE, start |-> 0, end |-> 0, g |-> NoGroups]

\* a pattern that matches exactly one character
IsCharClass(r) == r.k \in {"set", "nset", "any"}

\* the character at position i is in the class r
CharOk(r, s, i) ==
    /\ i <= Len(s)
    /\ CASE r.k = "set" -> Char(s, i) \in r.cs
         [] r.k = "nset" -> Char(s, i) \notin r.cs
         [] r.k = "any" -> Char(s, i) # "\n"

RECURSIVE RunLen(_, _, _, _)
\* the length of the run of characters of the class r from position i, at most max
RunLen(r, s, i, max) ==
    IF max > 0 /\ CharOk(r, s, i) THEN 1 + RunLen(r, s, i + 1, max - 1) ELSE 0

\* the ways of a repetition of a character class: one per length of the run
ClassRepWays(q, s, i, g) ==
    LET Ways(run) ==
            IF run < q.lo THEN <<>>
            ELSE SubSeq([m \in 1..(run - q.lo + 1) |->
                            IF q.greedy THEN <<i + run - (m - 1), g>>
                            ELSE <<i + q.lo + (m - 1), g>>],
                        1, run - q.lo + 1)
    IN Ways(RunLen(q.r, s, i, q.hi))

RECURSIVE ReWays(_, _, _, _)
RECURSIVE ReEach(_, _, _, _, _)
RECURSIVE ReCatWays(_, _, _, _)
RECURSIVE ReAltWays(_, _, _, _, _)
RECURSIVE ReRepWays(_, _, _, _, _)
RECURSIVE ReRepEach(_, _, _, _, _, _)

\* the ways of r from the end of each of ways[lo..hi], in order
ReEach(r, s, ways, lo, hi) ==
    IF lo > hi THEN <<>>
    ELSE IF lo = hi THEN ReWays(r, s, ways[lo][1], ways[lo][2])
    ELSE LET mid == (lo + hi) \div 2
         IN ReEach(r, s, ways, lo, mid) \o ReEach(r, s, ways, mid + 1, hi)

\* the ways rs[j..] match one after the other from the ends of ways
ReCatWays(rs, j, s, ways) ==
    IF j > Len(rs) \/ ways = <<>> THEN ways
    ELSE ReCatWays(rs, j + 1, s, ReEach(rs[j], s, ways, 1, Len(ways)))

\* the ways of rs[j], then those of rs[j+1], ...
ReAltWays(rs, j, s, i, g) ==
    IF j > Len(rs) THEN <<>>
    ELSE ReWays(rs[j], s, i, g) \o ReAltWays(rs, j + 1, s, i, g)

\* the ways of the repetition q, already matched cnt times, from the end of
\* each of ways[lo..hi] that has consumed something since position from
ReRepEach(q, cnt, s, ways, lo, hi) ==
    IF lo > hi THEN <<>>
    ELSE IF lo = hi THEN ReRepWays(q, cnt, s, ways[lo][1], ways[lo][2])
    ELSE LET mid == (lo + hi) \div 2
         IN ReRepEach(q, cnt, s, ways, lo, mid) \o ReRepEach(q, cnt, s, ways, mid + 1, hi)

\* greedy: the longer ways first; lazy: stopping first
RepOrder(q, stop, more) == IF q.greedy THEN more \o stop ELSE stop \o more

\* the ways of a repetition after one more match of its body (once), and stopping here
RepMore(q, cnt, s, i, g, once) ==
    RepOrder(q, IF cnt >= q.lo THEN << <<i, g>> >> ELSE <<>>,
             ReRepEach(q, cnt + 1, s, once, 1, Len(once)))

\* the ways of a repetition that has already matched cnt times
ReRepWays(q, cnt, s, i, g) ==
    RepMore(q, cnt, s, i, g,
            IF cnt < q.hi THEN SelectSeq(ReWays(q.r, s, i, g), LAMBDA w : w[1] > i) ELSE <<>>)

\* the ways of a group's body, each recording the group's span from position i
ReRecord(ways, grp, i) ==
    SubSeq([m \in 1..Len(ways) |-> <<ways[m][1], [ways[m][2] EXCEPT ![grp] = <<i, ways[m][1]>>]>>],
           1, Len(ways))

ReWays(r, s, i, g) ==
    CASE r.k = "lit" ->
           IF i + Len(r.str) - 1 <= Len(s) /\ SubSeq(s, i, i + Len(r.str) - 1) = r.str
           THEN << <<i + Len(r.str), g>> >> ELSE <<>>
      [] r.k = "ilit" ->
           IF i + Len(r.str) - 1 <= Len(s)
              /\ StrLower(SubSeq(s, i, i + Len(r.str) - 1)) = StrLower(r.str)
           THEN << <<i + Len(r.str), g>> >> ELSE <<>>
      [] IsCharClass(r) -> IF CharOk(r, s, i) THEN << <<i + 1, g>> >> ELSE <<>>
      [] r.k = "cat" -> ReCatWays(r.rs, 1, s, << <<i, g>> >>)
      [] r.k = "alt" -> ReAltWays(r.rs, 1, s, i, g)
      [] r.k = "rep" ->
           IF IsCharClass(r.r) THEN ClassRepWays(r, s, i, g) ELSE ReRepWays(r, 0, s, i, g)
      [] r.k = "grp" -> ReRecord(ReWays(r.r, s, i, g), r.n, i)
      [] r.k = "bol" -> IF i = 1 THEN << <<i, g>> >> ELSE <<>>
      [] r.k = "eol" ->
           IF i = Len(s) + 1 \/ (i = Len(s) /\ Char(s, i) = "\n") THEN << <<i, g>> >> ELSE <<>>
      [] r.k = "wb" ->
           IF IsWordAt(s, i - 1) # IsWordAt(s, i) THEN << <<i, g>> >> ELSE <<>>

\* the match re reports for a start position i
ReAt(r, s, i) ==
    LET First(ways) ==
            IF ways # <<>>
            THEN [ok |-> TRUE, start |-> i, end |-> ways[1][1], g |-> ways[1][2]]
            ELSE ReFail
    IN First(ReWays(r, s, i, NoGroups))

\* re.match(r, s): a match at the start only
ReMatchStart(r, s) == ReAt(r, s, 1)

RECURSIVE ReSearchFrom(_, _, _, _)
\* re.search among the start positions lo..hi: [ok, start, end, g], the leftmost match
ReSearchFrom(r, s, lo, hi) ==
    IF lo > hi THEN ReFail
    ELSE IF lo = hi THEN ReAt(r, s, lo)
    ELSE LET OrRight(left) ==
                 IF left.ok THEN left ELSE ReSearchFrom(r, s, (lo + hi) \div 2 + 1, hi)
         IN OrRight(ReSearchFrom(r, s, lo, (lo + hi) \div 2))

\* re.search(r, s)
ReSearch(r, s) == ReSearchFrom(r, s, 1, Len(s) + 1)

\* match.group(n) of a successful match, n >= 1 (the empty string stands for None)
ReGroupText(s, m, n) == SubSeq(s, m.g[n][1], m.g[n][2] - 1)

\* match.group(0)
ReWhole(s, m) == SubSeq(s, m.start, m.end - 1)

(***************************************************************************)
(* Python values held by the extracted mapping and by the profile: None,   *)
(* int, float and str.                                                     *)
(***************************************************************************)
VNone == [t |-> "none"]
VInt(n) == [t |-> "int", n |-> n]
VFloat(n) == [t |-> "float", n |-> n]
VStr(s) == [t |-> "str", s |-> s]

IsNum(v) == v.t \in {"int", "float"}

\* str(v)
PyStr(v) ==
    CASE v.t = "none" -> "None"
      [] v.t = "int" -> IF v.n < 0 THEN "-" \o NatToStr(-v.n) ELSE NatToStr(v.n)
      [] v.t = "float" -> (IF v.n < 0 THEN "-" \o NatToStr(-v.n) ELSE NatToStr(v.n)) \o ".0"
      [] v.t = "str" -> v.s

\* bool(v)
PyTruthy(v) ==
    CASE v.t = "none" -> FALSE
      [] v.t \in {"int", "float"} -> v.n # 0
      [] v.t = "str" -> v.s # ""

\* the position of the first occurrence of the character c in s, 0 if none
FirstIndex(s, c) ==
    IF \E i \in 1..Len(s) : Char(s, i) = c
    THEN CHOOSE i \in 1..Len(s) : Char(s, i) = c /\ \A j \in 1..(i - 1) : Char(s, j) # c
    ELSE 0

\* the first three fractional digits of a decimal literal, in thousandths
FracMilli(fp) == StrToInt(SubSeq(fp \o "000", 1, 3))

\* the literal of a float: its sign, its integral part and its fraction
FloatLiteral(negative, ip, fp) ==
    IF AllIn(ip, DigitSet) /\ AllIn(fp, DigitSet) /\ (ip # "" \/ fp # "")
    THEN [ok |-> TRUE, n |-> IF negative THEN -StrToInt(ip) ELSE StrToInt(ip),
          f |-> FracMilli(fp)]
    ELSE [ok |-> FALSE, n |-> 0, f |-> 0]

\* the literal split at its first dot
FloatParts(negative, body, dot) ==
    FloatLiteral(negative, IF dot = 0 THEN body ELSE SubSeq(body, 1, dot - 1),
                 IF dot = 0 THEN "" ELSE SubSeq(body, dot + 1, Len(body)))

\* the literal after its sign
FloatBody(negative, body) == FloatParts(negative, body, FirstIndex(body, "."))

\* the stripped literal
FloatSigned(str) ==
    IF str # "" /\ Head(str) \in {"+", "-"} THEN FloatBody(Head(str) = "-", Tail(str))
    ELSE FloatBody(FALSE, str)

\* float(text) for a str: [ok, n, f]; ok = FALSE stands for ValueError.  The
\* literal is [sign] digits [. digits] or [sign] . digits; n is its integral
\* part and f its fraction in thousandths.  The floats of the model are
\* integral: f is read only where the literal is scaled by a unit.
StrToFloat(text) == FloatSigned(StrStrip(text))

\* float(text) * unit for a unit that is a multiple of 1000
Scaled(d, unit) == d.n * unit + d.f * (unit \div 1000)

\* float(v): ok = FALSE stands for ValueError (a str that is no number) or
\* TypeError (None)
PyFloat(v) ==
    CASE v.t = "none" -> [ok |-> FALSE, n |-> 0, f |-> 0]
      [] v.t \in {"int", "float"} -> [ok |-> TRUE, n |-> v.n, f |-> 0]
      [] v.t = "str" -> StrToFloat(v.s)

\* int(v): a str must be an integer literal
PyInt(v) ==
    IF v.t = "str" /\ StrContains(v.s, ".") THEN [ok |-> FALSE, n |-> 0, f |-> 0]
    ELSE PyFloat(v)

(***************************************************************************)
(* The product registry.                                                   *)
(***************************************************************************)
LoanTypes == {"education", "home", "personal", "business", "gold", "car"}

EducationRequired ==
    <<"Customer_Name", "Customer_Email", "Customer_Phone", "Age", "Academic_Score",
      "Intended_Course", "University_Tier", "Coapplicant_Income", "Guarantor_Networth",
      "CIBIL_Score", "Loan_Type", "Loan_Term", "Expected_Loan_Amount">>

HomeRequired ==
    <<"Customer_Name", "Customer_Email", "Customer_Phone", "Age", "Income",
      "Guarantor_income", "Tenure", "CIBIL_score", "Employment_type", "Down_payment",
      "Existing_total_EMI", "Loan_amount_requested", "Property_value">>

PersonalRequired ==
    <<"Customer_Name", "Customer_Email", "Customer_Phone", "Age", "Employment_Type",
      "Employment_Duration_Years", "Annual_Income", "CIBIL_Score", "Existing_EMIs",
      "Loan_Term_Years", "Expected_Loan_Amount">>

BusinessRequired ==
    <<"Customer_Name", "Customer_Email", "Customer_Phone", "Business_Age_Years",
      "Annual_Revenue", "Net_Profit", "CIBIL_Score", "Business_Type",
      "Existing_Loan_Amount", "Loan_Tenure_Years", "Has_Collateral", "Has_Guarantor",
      "Industry_Risk_Rating", "Location_Tier", "Expected_Loan_Amount">>

GoldRequired ==
    <<"Customer_Name", "Customer_Email", "Customer_Phone", "Age", "Annual_Income",
      "CIBIL_Score", "Occupation", "Gold_Value", "Loan_Amount", "Loan_Tenure">>

CarRequired ==
    <<"Customer_Name", "Customer_Email", "Customer_Phone", "Age",
      "applicant_annual_salary", "Coapplicant_Annual_Income", "CIBIL", "Car_Type",
      "down_payment_percent", "Tenure", "loan_amount">>

\* service.get_required_fields()
get_required_fields(lt) ==
    CASE lt = "education" -> EducationRequired
      [] lt = "home" -> HomeRequired
      [] lt = "personal" -> PersonalRequired
      [] lt = "business" -> BusinessRequired
      [] lt = "gold" -> GoldRequired
      [] lt = "car" -> CarRequired

SeqSet(q) == {q[i] : i \in 1..Len(q)}

\* ', '.join(q)
RECURSIVE JoinComma(_)
JoinComma(q) ==
    IF q = <<>> THEN ""
    ELSE IF Len(q) = 1 THEN q[1]
    ELSE q[1] \o ", " \o JoinComma(Tail(q))

(***************************************************************************)
(* validate_field of the six product services.  The result is the pair     *)
(* (is_valid, error_msg) as [ok, msg].                                     *)
(***************************************************************************)
Accept == [ok |-> TRUE, msg |-> ""]
Reject(m) == [ok |-> FALSE, msg |-> m]

EmailLocalSet == LetterSet \cup DigitSet \cup {".", "_", "%", "+", "-"}
EmailDomainSet == LetterSet \cup DigitSet \cup {".", "-"}

\* r'^[a-zA-Z0-9._%+-]+@[a-zA-Z0-9.-]+\.[a-zA-Z]{2,}$'
ValidEmailPattern ==
    ReCat(<<ReBol, RePlus(ReSet(EmailLocalSet)), ReLit("@"), RePlus(ReSet(EmailDomainSet)),
            ReLit("."), ReRep(ReSet(LetterSet), 2, ReInf), ReEol>>)

\* the Customer_Name branch, the same in the six services
ValidateName(value) ==
    IF ~PyTruthy(value) \/ StrStrip(PyStr(value)) = "" THEN Reject("Please provide your full name.")
    ELSE IF Len(StrStrip(PyStr(value))) < 2 THEN Reject("Please provide your complete name.")
    ELSE Accept

\* the Customer_Email branch; the services differ in the message only
ValidateEmail(value, msg) ==
    IF ~ReMatchStart(ValidEmailPattern, PyStr(value)).ok THEN Reject(msg) ELSE Accept

\* phone_str is ten digits, the first of them 6 to 9
PhoneChecked(phone_str, msg) ==
    IF \/ ~StrIsDigit(phone_str) \/ Len(phone_str) # 10
       \/ Head(phone_str) \notin {"6", "7", "8", "9"}
    THEN Reject(msg) ELSE Accept

\* the Customer_Phone branch; the services differ in the message only
ValidatePhone(value, msg) ==
    PhoneChecked(StrReplace(StrRemove(PyStr(value), {" ", "-", "(", ")"}), "+91", ""), msg)

\* value not in valid_types
InList(value, valid) == value.t = "str" /\ value.s \in SeqSet(valid)

\* the except (ValueError, TypeError) branch
FormatError(field_name) ==
    Reject("Please provide a valid " \o StrLower(StrReplaceChar(field_name, "_", " "))
           \o " in the correct format.")

HomeFormatError(field_name) ==
    Reject("I didn't quite understand the " \o StrLower(StrReplaceChar(field_name, "_", " "))
           \o ". Could you please provide it in a clear format?")

PhoneMsg == "Please provide a valid 10-digit mobile number starting with 6, 7, 8, or 9."
EmailMsg == "Please provide a valid email address."

PersonalEmploymentTypes == <<"Self-Employed", "Salaried">>

\* the branches of validate_field for the value read as a number
PersonalChecked(field_name, value, f) ==
    LET x == f.n
    IN CASE field_name = "Customer_Name" -> ValidateName(value)
         [] field_name = "Customer_Email" -> ValidateEmail(value, EmailMsg)
         [] field_name = "Customer_Phone" -> ValidatePhone(value, PhoneMsg)
         [] field_name = "Age" ->
              IF ~f.ok THEN FormatError(field_name)
              ELSE IF x < 21 THEN Reject("INELIGIBLE: You must be at least 21 years old to apply for a personal loan. Unfortunately, we cannot process your application at this time.")
              ELSE IF x > 65 THEN Reject("INELIGIBLE: Personal loans are available only for applicants up to 65 years of age. Unfortunately, we cannot process your application at this time.")
              ELSE Accept
         [] field_name = "CIBIL_Score" ->
              IF ~f.ok THEN FormatError(field_name)
              ELSE IF x < 650 THEN Reject("INELIGIBLE: A minimum CIBIL score of 650 is required for personal loan approval. Your current score does not meet our eligibility criteria.")
              ELSE IF ~(300 <= x /\ x <= 900) THEN Reject("Please provide a valid CIBIL score between 300 and 900. Could you check and confirm your credit score?")
              ELSE Accept
         [] field_name = "Employment_Duration_Years" ->
              IF ~f.ok THEN FormatError(field_name)
              ELSE IF x < 0 THEN Reject("INELIGIBLE: Employment duration cannot be negative. Please provide valid employment experience.")
              ELSE IF x < 1 THEN Reject("INELIGIBLE: You must have at least 1 year of employment experience to qualify for a personal loan.")
              ELSE IF x > 45 THEN Reject("Employment duration seems unusually high. Could you please confirm how many years you've been in your current employment type?")
              ELSE Accept
         [] field_name = "Annual_Income" ->
              IF ~f.ok THEN FormatError(field_name)
              ELSE IF x <= 0 THEN Reject("Annual income must be a positive amount. Please provide your yearly income.")
              ELSE IF x < 200000 THEN Reject("INELIGIBLE: Minimum annual income of Rs.2,00,000 is required for personal loan eligibility.")
              ELSE IF x > 50000000 THEN Reject("Please verify your annual income. The amount seems unusually high. Could you confirm?")
              ELSE Accept
         [] field_name = "Employment_Type" ->
              IF ~InList(value, PersonalEmploymentTypes)
              THEN Reject("Please select your employment type from: " \o JoinComma(PersonalEmploymentTypes) \o ". Which category describes your employment?")
              ELSE Accept
         [] field_name = "Loan_Term_Years" ->
              IF ~f.ok THEN FormatError(field_name)
              ELSE IF ~(1 <= x /\ x <= 7) THEN Reject("Loan term must be between 1 and 7 years. Please specify your preferred repayment period.")
              ELSE Accept
         [] field_name = "Expected_Loan_Amount" ->
              IF ~f.ok THEN FormatError(field_name)
              ELSE IF x <= 0 THEN Reject("Loan amount must be a positive value. Please specify your loan requirement.")
              ELSE IF x < 50000 THEN Reject("Minimum loan amount is Rs.50,000. Please specify an amount of at least Rs.50,000.")
              ELSE IF x > 2000000 THEN Reject("Maximum loan amount is Rs.20,00,000. Please specify an amount within this limit.")
              ELSE Accept
         [] field_name = "Existing_EMIs" ->
              IF ~f.ok THEN FormatError(field_name)
              ELSE IF x < 0 THEN Reject("EMI amount cannot be negative. Please provide your current monthly EMI obligations (enter 0 if none).")
              ELSE Accept
         [] OTHER -> Accept

\* PersonalLoanService.validate_field
PersonalValidate(field_name, value) ==
    PersonalChecked(field_name, value, PyFloat(value))

EducationCourses == <<"STEM", "MBA", "Medicine", "Finance", "Law", "Arts", "Other">>
EducationTiers == <<"Tier1", "Tier2", "Tier3">>
EducationLoanTypes == <<"Secured", "Unsecured">>

\* the branches of validate_field for the value read as a number
EducationChecked(field_name, value, f, i) ==
    LET x == f.n
    IN CASE field_name = "Customer_Name" -> ValidateName(value)
         [] field_name = "Customer_Email" -> ValidateEmail(value, EmailMsg)
         [] field_name = "Customer_Phone" ->
              ValidatePhone(value, "Invalid phone number. Phone number must be exactly 10 digits starting with 6, 7, 8, or 9.")
         [] field_name = "Age" ->
              IF ~f.ok THEN FormatError(field_name)
              ELSE IF x < 18 \/ x > 35 THEN Reject("Invalid age. For education loan applicants, age must be between 18-35.")
              ELSE Accept
         [] field_name = "Academic_Score" ->
              IF ~f.ok THEN FormatError(field_name)
              ELSE IF x < 0 THEN Reject("Invalid score. Please enter a real quantity (score cannot be negative).")
              ELSE IF x > 100 THEN Reject("Invalid score. Please enter a real quantity (score cannot exceed 100).")
              ELSE Accept
         [] field_name = "CIBIL_Score" ->
              IF ~i.ok THEN FormatError(field_name)
              ELSE IF i.n < 650 THEN Reject("You are not eligible. CIBIL score must be at least 650 for education loan.")
              ELSE IF i.n > 900 THEN Reject("Invalid CIBIL score. CIBIL score cannot exceed 900.")
              ELSE Accept
         [] field_name = "Expected_Loan_Amount" ->
              IF ~f.ok THEN FormatError(field_name)
              ELSE IF x <= 0 THEN Reject("Invalid loan amount. All values must be positive.")
              ELSE IF x > 30000000 THEN Reject("Not eligible. Loan amount cannot exceed Rs.3,00,00,000.")
              ELSE Accept
         [] field_name = "Loan_Term" ->
              IF ~i.ok THEN FormatError(field_name)
              ELSE IF i.n <= 0 THEN Reject("Invalid loan term. All values must be positive.")
              ELSE IF i.n < 1 \/ i.n > 15 THEN Reject("Invalid loan term. Education loan term must be between 1-15 years.")
              ELSE Accept
         [] field_name \in {"Coapplicant_Income", "Guarantor_Networth"} ->
              IF ~f.ok THEN FormatError(field_name)
              ELSE IF x <= 0 THEN Reject("Invalid " \o StrReplaceChar(StrLower(field_name), "_", " ") \o ". All values must be positive (negative values like -56418 are not possible).")
              ELSE Accept
         [] field_name = "Intended_Course" ->
              IF ~InList(value, EducationCourses)
              THEN Reject("Please select your intended course from: " \o JoinComma(EducationCourses))
              ELSE Accept
         [] field_name = "University_Tier" ->
              IF ~InList(value, EducationTiers)
              THEN Reject("Please select university tier from: " \o JoinComma(EducationTiers))
              ELSE Accept
         [] field_name = "Loan_Type" ->
              IF ~InList(value, EducationLoanTypes)
              THEN Reject("Please select loan type from: " \o JoinComma(EducationLoanTypes))
              ELSE Accept
         [] OTHER -> Accept

\* EducationLoanService.validate_field
EducationValidate(field_name, value) ==
    EducationChecked(field_name, value, PyFloat(value), PyInt(value))

HomeEmploymentTypes == <<"Business Owner", "Salaried", "Government Employee", "Self-Employed">>

\* the branches of validate_field for the value read as a number
HomeChecked(field_name, value, f) ==
    LET x == f.n
    IN CASE field_name = "Customer_Name" -> ValidateName(value)
         [] field_name = "Customer_Email" -> ValidateEmail(value, EmailMsg)
         [] field_name = "Customer_Phone" -> ValidatePhone(value, PhoneMsg)
         [] field_name = "Age" ->
              IF ~f.ok THEN HomeFormatError(field_name)
              ELSE IF ~(21 <= x /\ x <= 50) THEN Reject("I need your age to be between 21 and 50 years for home loan eligibility. Could you please confirm your age?")
              ELSE Accept
         [] field_name = "CIBIL_score" ->
              IF ~f.ok THEN HomeFormatError(field_name)
              ELSE IF x < 650 THEN Reject("Sorry, for home loans we require a minimum CIBIL score of 650. Unfortunately, your current score doesn't meet our eligibility criteria.")
              ELSE IF ~(300 <= x /\ x <= 900) THEN Reject("Your CIBIL score should be between 300 and 900. Could you please check and provide your correct credit score?")
              ELSE Accept
         [] field_name = "Employment_type" ->
              IF ~InList(value, HomeEmploymentTypes)
              THEN Reject("For employment type, please choose from: " \o JoinComma(HomeEmploymentTypes) \o ". Which category best describes your employment?")
              ELSE Accept
         [] field_name = "Tenure" ->
              IF ~f.ok THEN HomeFormatError(field_name)
              ELSE IF ~(5 <= x /\ x <= 30) THEN Reject("Loan tenure should be between 5 and 30 years. How many years would you like to repay the loan?")
              ELSE Accept
         [] field_name = "Income" ->
              IF ~f.ok THEN HomeFormatError(field_name)
              ELSE IF x <= 0 THEN Reject("Could you please tell me your monthly income? This helps me calculate your loan eligibility.")
              ELSE Accept
         [] field_name = "Property_value" ->
              IF ~f.ok THEN HomeFormatError(field_name)
              ELSE IF x <= 0 THEN Reject("What's the total value of the property you're planning to purchase? This is important for calculating your loan amount.")
              ELSE Accept
         [] field_name = "Loan_amount_requested" ->
              IF ~f.ok THEN HomeFormatError(field_name)
              ELSE IF x <= 0 THEN Reject("How much loan amount are you looking for? Please share your expected loan requirement.")
              ELSE Accept
         [] field_name = "Down_payment" ->
              IF ~f.ok THEN HomeFormatError(field_name)
              ELSE IF x < 0 THEN Reject("How much can you pay as down payment? Even if it's zero, please let me know.")
              ELSE Accept
         [] field_name = "Guarantor_income" ->
              IF ~f.ok THEN HomeFormatError(field_name)
              ELSE IF x < 0 THEN Reject("Guarantor income cannot be negative. Please provide the guarantor's monthly income (enter 0 if no guarantor).")
              ELSE Accept
         [] field_name = "Existing_total_EMI" ->
              IF ~f.ok THEN HomeFormatError(field_name)
              ELSE IF x < 0 THEN Reject("Existing EMI cannot be negative. Please provide your current monthly EMI obligations (enter 0 if none).")
              ELSE Accept
         [] OTHER -> Accept

\* HomeLoanService.validate_field
HomeValidate(field_name, value) ==
    HomeChecked(field_name, value, PyFloat(value))

BusinessTypes == <<"Retail", "Trading", "Services", "Manufacturing">>
BusinessIndustries ==
    <<"Healthcare", "FMCG", "IT Services", "Education", "Automobile", "Telecom",
      "Real Estate", "Hospitality", "Crypto", "Airlines">>
BusinessLocations == <<"Tier-1 City", "Tier-2 City", "Tier-3 City", "Rural">>
YesNo == <<"Yes", "No">>

\* the branches of validate_field for the value read as a number
BusinessChecked(field_name, value, f) ==
    LET x == f.n
    IN CASE field_name = "Customer_Name" -> ValidateName(value)
         [] field_name = "Customer_Email" ->
              ValidateEmail(value, "Please provide a valid email address (e.g., name@company.com).")
         [] field_name = "Customer_Phone" -> ValidatePhone(value, PhoneMsg)
         [] field_name = "Business_Age_Years" ->
              IF ~f.ok THEN FormatError(field_name)
              ELSE IF x < 1 THEN Reject("INELIGIBLE: Business must be operating for at least 1 year to qualify for a business loan.")
              ELSE IF x > 50 THEN Reject("Please verify your business age. The duration seems unusually high. Could you confirm how many years your business has been operating?")
              ELSE Accept
         [] field_name = "CIBIL_Score" ->
              IF ~f.ok THEN FormatError(field_name)
              ELSE IF x < 650 THEN Reject("INELIGIBLE: A minimum CIBIL score of 650 is required for business loan approval. Your current score does not meet our eligibility criteria.")
              ELSE IF ~(300 <= x /\ x <= 900) THEN Reject("Please provide a valid CIBIL score between 300 and 900. Could you check and confirm your credit score?")
              ELSE Accept
         [] field_name = "Annual_Revenue" ->
              IF ~f.ok THEN FormatError(field_name)
              ELSE IF x <= 0 THEN Reject("Annual revenue must be a positive amount. Please provide your yearly business revenue.")
              ELSE IF x < 500000 THEN Reject("INELIGIBLE: Minimum annual revenue of Rs.5,00,000 is required for business loan eligibility.")
              ELSE IF x > 1000000000 THEN Reject("Please verify your annual revenue. The amount seems unusually high. Could you confirm your yearly business income?")
              ELSE Accept
         [] field_name = "Net_Profit" ->
              IF ~f.ok THEN FormatError(field_name)
              ELSE IF x <= 0 THEN Reject("Net profit must be a positive amount. Please provide your yearly net profit after all expenses.")
              ELSE IF x > 500000000 THEN Reject("Please verify your net profit. The amount seems unusually high. Could you confirm your yearly net profit?")
              ELSE Accept
         [] field_name = "Business_Type" ->
              IF ~InList(value, BusinessTypes)
              THEN Reject("Please select your business type from: " \o JoinComma(BusinessTypes) \o ". Which category best describes your business?")
              ELSE Accept
         [] field_name = "Loan_Tenure_Years" ->
              IF ~f.ok THEN FormatError(field_name)
              ELSE IF ~(1 <= x /\ x <= 10) THEN Reject("Business loan tenure must be between 1 and 10 years. Please specify your preferred repayment period.")
              ELSE Accept
         [] field_name = "Existing_Loan_Amount" ->
              IF ~f.ok THEN FormatError(field_name)
              ELSE IF x < 0 THEN Reject("Existing loan amount cannot be negative. Please provide your current business loan amount (enter 0 if none).")
              ELSE Accept
         [] field_name = "Has_Collateral" ->
              IF ~InList(value, YesNo) THEN Reject("Please specify if you have collateral available: Yes or No.")
              ELSE Accept
         [] field_name = "Has_Guarantor" ->
              IF ~InList(value, YesNo) THEN Reject("Please specify if you have a guarantor available: Yes or No.")
              ELSE Accept
         [] field_name = "Industry_Risk_Rating" ->
              IF ~InList(value, BusinessIndustries)
              THEN Reject("Please select your industry from: " \o JoinComma(BusinessIndustries) \o ". Which industry best describes your business?")
              ELSE Accept
         [] field_name = "Location_Tier" ->
              IF ~InList(value, BusinessLocations)
              THEN Reject("Please select your business location type from: " \o JoinComma(BusinessLocations) \o ". Which category best describes your business location?")
              ELSE Accept
         [] field_name = "Expected_Loan_Amount" ->
              IF ~f.ok THEN FormatError(field_name)
              ELSE IF x <= 0 THEN Reject("Expected loan amount must be a positive amount. Please specify how much loan you need.")
              ELSE IF x < 100000 THEN Reject("INELIGIBLE: Minimum loan amount is Rs.1,00,000 for business loans.")
              ELSE IF x > 100000000 THEN Reject("Please verify your loan requirement. The amount seems unusually high. Could you confirm how much loan you need?")
              ELSE Accept
         [] OTHER -> Accept

\* BusinessLoanService.validate_field
BusinessValidate(field_name, value) ==
    BusinessChecked(field_name, value, PyFloat(value))

GoldOccupations == <<"Salaried", "Retired", "Business", "Self-employed">>

\* the branches of validate_field for the value read as a number
GoldChecked(field_name, value, f) ==
    LET x == f.n
    IN CASE field_name = "Customer_Name" -> ValidateName(value)
         [] field_name = "Customer_Email" -> ValidateEmail(value, EmailMsg)
         [] field_name = "Customer_Phone" -> ValidatePhone(value, PhoneMsg)
         [] field_name = "Age" ->
              IF ~f.ok THEN FormatError(field_name)
              ELSE IF x < 21 THEN Reject("INELIGIBLE: You must be at least 21 years old to apply for a gold loan. Unfortunately, we cannot process your application at this time.")
              ELSE IF x > 75 THEN Reject("INELIGIBLE: Gold loans are available only for applicants up to 75 years of age. Unfortunately, we cannot process your application at this time.")
              ELSE Accept
         [] field_name = "CIBIL_Score" ->
              IF ~f.ok THEN FormatError(field_name)
              ELSE IF x < 600 THEN Reject("INELIGIBLE: A minimum CIBIL score of 600 is required for gold loan approval. Your current score does not meet our eligibility criteria.")
              ELSE IF ~(300 <= x /\ x <= 900) THEN Reject("Please provide a valid CIBIL score between 300 and 900. Could you check and confirm your credit score?")
              ELSE Accept
         [] field_name = "Occupation" ->
              IF ~InList(value, GoldOccupations)
              THEN Reject("Please select your occupation from: " \o JoinComma(GoldOccupations) \o ". Which category best describes your occupation?")
              ELSE Accept
         [] field_name = "Annual_Income" ->
              IF ~f.ok THEN FormatError(field_name)
              ELSE IF x <= 0 THEN Reject("Annual income must be a positive amount. Please provide your yearly income.")
              ELSE IF x < 180000 THEN Reject("INELIGIBLE: Minimum annual income of Rs.1,80,000 is required for gold loan eligibility.")
              ELSE IF x > 60000000 THEN Reject("Please verify your annual income. The amount seems unusually high. Could you confirm?")
              ELSE Accept
         [] field_name = "Gold_Value" ->
              IF ~f.ok THEN FormatError(field_name)
              ELSE IF x <= 0 THEN Reject("Gold value must be a positive amount. Please provide the current market value of your gold in INR.")
              ELSE IF x < 10000 THEN Reject("INELIGIBLE: Minimum gold value of Rs.10,000 is required for gold loan eligibility.")
              ELSE IF x > 50000000 THEN Reject("Please verify your gold value. The amount seems unusually high. Could you confirm the current market value?")
              ELSE Accept
         [] field_name = "Loan_Amount" ->
              IF ~f.ok THEN FormatError(field_name)
              ELSE IF x <= 0 THEN Reject("Loan amount must be a positive amount. Please provide your desired loan amount in INR.")
              ELSE IF x < 5000 THEN Reject("INELIGIBLE: Minimum loan amount of Rs.5,000 is required.")
              ELSE IF x > 10000000 THEN Reject("Please verify your loan amount. The amount seems unusually high for a gold loan.")
              ELSE Accept
         [] field_name = "Loan_Tenure" ->
              IF ~f.ok THEN FormatError(field_name)
              ELSE IF x < 1 THEN Reject("INELIGIBLE: Gold loan tenure must be at least 1 year. Please specify a tenure between 1 and 3 years.")
              ELSE IF x > 3 THEN Reject("INELIGIBLE: Gold loan tenure cannot exceed 3 years. Please specify a tenure between 1 and 3 years.")
              ELSE Accept
         [] OTHER -> Accept

\* GoldLoanService.validate_field
GoldValidate(field_name, value) ==
    GoldChecked(field_name, value, PyFloat(value))

CarTypes == <<"Sedan", "SUV", "Hatchback", "Coupe">>

\* the branches of validate_field for the value read as a number
CarChecked(field_name, value, f) ==
    LET x == f.n
    IN CASE field_name = "Customer_Name" -> ValidateName(value)
         [] field_name = "Customer_Email" -> ValidateEmail(value, EmailMsg)
         [] field_name = "Customer_Phone" -> ValidatePhone(value, PhoneMsg)
         [] field_name = "Age" ->
              IF ~f.ok THEN FormatError(field_name)
              ELSE IF x < 18 THEN Reject("INELIGIBLE: You must be at least 18 years old to apply for a car loan.")
              ELSE IF x > 80 THEN Reject("INELIGIBLE: Maximum age limit for car loan is 80 years.")
              ELSE Accept
         [] field_name = "CIBIL" ->
              IF ~f.ok THEN FormatError(field_name)
              ELSE IF x < 650 THEN Reject("INELIGIBLE: A minimum CIBIL score of 650 is required for car loan approval. Your current score does not meet our eligibility criteria.")
              ELSE IF ~(300 <= x /\ x <= 900) THEN Reject("Please provide a valid CIBIL score between 300 and 900. Could you check and confirm your credit score?")
              ELSE Accept
         [] field_name = "applicant_annual_salary" ->
              IF ~f.ok THEN FormatError(field_name)
              ELSE IF x <= 0 THEN Reject("Annual salary must be a positive amount. Please provide your yearly salary.")
              ELSE IF x < 300000 THEN Reject("INELIGIBLE: Minimum annual salary of Rs.3,00,000 is required for car loan eligibility.")
              ELSE IF x > 100000000 THEN Reject("Please verify your annual salary. The amount seems unusually high. Could you confirm your yearly income?")
              ELSE Accept
         [] field_name = "Coapplicant_Annual_Income" ->
              IF ~f.ok THEN FormatError(field_name)
              ELSE IF x < 0 THEN Reject("Co-applicant income cannot be negative. Please provide the co-applicant's yearly income (enter 0 if no co-applicant).")
              ELSE IF x > 100000000 THEN Reject("Please verify the co-applicant's income. The amount seems unusually high.")
              ELSE Accept
         [] field_name = "Car_Type" ->
              IF ~InList(value, CarTypes)
              THEN Reject("Please select your car type from: " \o JoinComma(CarTypes) \o ". Which type of car are you planning to purchase?")
              ELSE Accept
         [] field_name = "down_payment_percent" ->
              IF ~f.ok THEN FormatError(field_name)
              ELSE IF ~(10 <= x /\ x <= 50) THEN Reject("Down payment percentage must be between 10% and 50%. Please specify your down payment percentage.")
              ELSE Accept
         [] field_name = "Tenure" ->
              IF ~f.ok THEN FormatError(field_name)
              ELSE IF ~(1 <= x /\ x <= 7) THEN Reject("Car loan tenure must be between 1 and 7 years. Please specify your preferred repayment period.")
              ELSE Accept
         [] field_name = "loan_amount" ->
              IF ~f.ok THEN FormatError(field_name)
              ELSE IF x <= 0 THEN Reject("Loan amount must be a positive amount. Please specify how much loan you need.")
              ELSE IF x < 100000 THEN Reject("INELIGIBLE: Minimum loan amount is Rs.1,00,000 for car loans.")
              ELSE IF x > 50000000 THEN Reject("Please verify your loan requirement. The amount seems unusually high for a car loan. Could you confirm the loan amount needed?")
              ELSE Accept
         [] OTHER -> Accept

\* CarLoanService.validate_field
CarValidate(field_name, value) ==
    CarChecked(field_name, value, PyFloat(value))

\* service.validate_field(field_name, value)
validate_field(lt, field_name, value) ==
    CASE lt = "education" -> EducationValidate(field_name, value)
      [] lt = "home" -> HomeValidate(field_name, value)
      [] lt = "personal" -> PersonalValidate(field_name, value)
      [] lt = "business" -> BusinessValidate(field_name, value)
      [] lt = "gold" -> GoldValidate(field_name, value)
      [] lt = "car" -> CarValidate(field_name, value)

(***************************************************************************)
(* Amount parsing and numeric coercion.                                    *)
(***************************************************************************)
Lakh == 100000
Crore == 10000000

\* r'([\d,]+(?:\.[\d,]+)?)'
NumberPattern ==
    ReGroup(1, ReCat(<<RePlus(ReSet(DigitSet \cup {","})),
                       ReOpt(ReCat(<<ReLit("."), RePlus(ReSet(DigitSet \cup {","}))>>))>>))

\* the number of an amount, multiplied by the unit the text names
AmountInUnit(amount_str, number) ==
    IF ~number.ok THEN 0
    ELSE IF StrContains(amount_str, "crore") THEN Scaled(number, Crore)
    ELSE IF StrContains(amount_str, "lakh") THEN Scaled(number, Lakh)
    ELSE number.n

\* float(number_match.group(1).replace(',', '')) in its unit, 0 without a match
AmountOfMatch(amount_str, number_match) ==
    IF ~number_match.ok THEN 0
    ELSE AmountInUnit(amount_str,
                      StrToFloat(StrRemove(ReGroupText(amount_str, number_match, 1), {","})))

\* the amount of the cleaned text
AmountOfText(amount_str) == AmountOfMatch(amount_str, ReSearch(NumberPattern, amount_str))

\* convert_amount_to_number of the product services (the six copies are the
\* same code): the float it returns
convert_amount_to_number(amount) ==
    IF IsNum(amount) THEN amount.n
    ELSE AmountOfText(StrRemove(StrStrip(StrLower(PyStr(amount))), {"r", "s", "."} \cup SpaceSet))

\* r"\b(cr|crore)s?\b"
CrorePattern == ReCat(<<ReWordB, ReWords(<<"cr", "crore">>), ReOpt(ReLit("s")), ReWordB>>)
\* r"\b(l|lac|lakh)s?\b"
LakhPattern == ReCat(<<ReWordB, ReWords(<<"l", "lac", "lakh">>), ReOpt(ReLit("s")), ReWordB>>)

NoAmount == [ok |-> FALSE, n |-> 0]

\* float(digits) times the unit, None when float raises
AmountTimes(num, unit) == IF num.ok THEN [ok |-> TRUE, n |-> Scaled(num, unit)] ELSE NoAmount

\* the three returns of parse_amount
ParsedAmount(s, digits, num) ==
    IF ReSearch(CrorePattern, s).ok THEN AmountTimes(num, Crore)
    ELSE IF ReSearch(LakhPattern, s).ok THEN AmountTimes(num, Lakh)
    ELSE IF digits = "" THEN NoAmount
    ELSE IF num.ok THEN [ok |-> TRUE, n |-> num.n] ELSE NoAmount

\* digits = re.sub(r"[^\d.]", "", s)
ParseDigits(s, digits) == ParsedAmount(s, digits, StrToFloat(digits))

\* parse_amount of BaseLoanService._fallback_extraction: [ok, n], ok = FALSE for None
parse_amount(text) == ParseDigits(StrLower(StrStrip(text)), StrKeep(StrLower(StrStrip(text)), DigitSet \cup {"."}))

\* r"[\d.]+"
DigitsDotsPattern == RePlus(ReSet(DigitSet \cup {"."}))

\* float(num) * unit, 0.0 when float raises
FloatTimes(num, unit) == IF num.ok THEN Scaled(num, unit) ELSE 0

\* float(num_match.group()), 0.0 when float raises
FloatOrZero(plain) == IF plain.ok THEN plain.n ELSE 0

\* the normal float conversion: the first run of digits and dots
FloatOfMatch(s, num_match) ==
    IF num_match.ok THEN FloatOrZero(StrToFloat(ReWhole(s, num_match))) ELSE 0

\* _to_float for the cleaned text s
FloatOfText(s) ==
    IF s = "" THEN 0
    ELSE IF StrEndsWith(s, "l") \/ StrContains(s, "lac") \/ StrContains(s, "lakh")
    THEN FloatTimes(StrToFloat(StrKeep(s, DigitSet \cup {"."})), Lakh)
    ELSE IF StrEndsWith(s, "cr") \/ StrContains(s, "crore")
    THEN FloatTimes(StrToFloat(StrKeep(s, DigitSet \cup {"."})), Crore)
    ELSE FloatOfMatch(s, ReSearch(DigitsDotsPattern, s))

\* a coercion that keeps the thousands separators: the first run of digits counts
FloatKeepingCommas(v) ==
    IF IsNum(v) THEN v.n
    ELSE IF v = VNone THEN 0
    ELSE FloatOfText(StrLower(StrStrip(PyStr(v))))

\* _to_float(v): the float it returns
_to_float(v) ==
    IF IsNum(v) THEN v.n
    ELSE IF v = VNone THEN 0
    ELSE FloatOfText(StrLower(StrStrip(StrRemove(PyStr(v), {","}))))

\* bands whose limits are not part of them
PerformanceOpenBands(score) ==
    IF 90 < score /\ score <= 100 THEN "Excellent"
    ELSE IF 80 < score /\ score < 90 THEN "Good"
    ELSE IF 60 < score /\ score < 75 THEN "Average"
    ELSE "Poor"

\* EducationLoanService.convert_academic_score_to_performance(score)
convert_academic_score_to_performance(score) ==
    IF 90 <= score /\ score <= 100 THEN "Excellent"
    ELSE IF 75 <= score /\ score < 90 THEN "Good"
    ELSE IF 60 <= score /\ score < 75 THEN "Average"
    ELSE "Poor"

(***************************************************************************)
(* Python dicts: a sequence of [k, v] entries in insertion order.          *)
(***************************************************************************)
EmptyDict == <<>>

DictKeys(d) == {d[i].k : i \in 1..Len(d)}

DictHas(d, k) == k \in DictKeys(d)

\* d[k] for a key of d
DictGet(d, k) == d[CHOOSE i \in 1..Len(d) : d[i].k = k].v

\* d.get(k): None for an absent key
DictGetOrNone(d, k) == IF DictHas(d, k) THEN DictGet(d, k) ELSE VNone

\* d[k] = v: a present key keeps its position
DictSet(d, k, v) ==
    IF DictHas(d, k)
    THEN [i \in 1..Len(d) |-> IF d[i].k = k THEN [k |-> k, v |-> v] ELSE d[i]]
    ELSE Append(d, [k |-> k, v |-> v])

\* d[k] = v when the condition holds
DictSetIf(d, cond, k, v) == IF cond THEN DictSet(d, k, v) ELSE d

RECURSIVE DictFilter(_, _)
\* {k: v for k, v in d.items() if k in keep}
DictFilter(d, keep) ==
    IF d = <<>> THEN <<>>
    ELSE (IF Head(d).k \in keep THEN <<Head(d)>> ELSE <<>>) \o DictFilter(Tail(d), keep)

(***************************************************************************)
(* The fallback extractors (_enhanced_fallback_extraction).  The result is *)
(* [raised, d]: raised = TRUE when the extractor raises, d the extracted   *)
(* mapping otherwise.                                                      *)
(***************************************************************************)
Returned(d) == [raised |-> FALSE, d |-> d]
Raised == [raised |-> TRUE, d |-> EmptyDict]

\* a found number, text, name or phone as the value stored for it
IntOf(found) == [ok |-> found.ok, v |-> VInt(found.n)]
FloatOf(found) == [ok |-> found.ok, v |-> VFloat(found.n)]
StrOf(found) == [ok |-> found.ok, v |-> VStr(found.v)]
NameOf(found) == [ok |-> found.ok, v |-> VStr(found.name)]
PhoneOf(found) == [ok |-> found.ok, v |-> VStr(found.phone)]
\* match.group(0) of a match
WholeOf(text, match) == [ok |-> match.ok, v |-> VStr(SubSeq(text, match.start, match.end - 1))]

\* a found value that counts only under a condition
Only(cond, found) == [ok |-> cond /\ found.ok, v |-> found.v]

\* a section of an extractor: extracted[k] = value when a value was found
Section(k, found) == [k |-> k, context |-> FALSE, asked |-> TRUE, raises |-> FALSE, found |-> found]

\* a context-aware section: if not extracted.get(k) and <the assistant asked
\* for it>: extracted[k] = value when a value was found
ContextSection(k, asked, found) ==
    [k |-> k, context |-> TRUE, asked |-> asked, raises |-> FALSE, found |-> found]

\* the section of the phone loop, which raises when match.group does
PhoneSection(phone) ==
    [k |-> "Customer_Phone", context |-> FALSE, asked |-> TRUE, raises |-> phone.raised,
     found |-> PhoneOf(phone)]

\* one section applied to x = [raised, d]: nothing once the extractor has raised
Step(x, section) ==
    IF x.raised THEN x
    ELSE IF section.raises THEN [raised |-> TRUE, d |-> <<>>]
    ELSE IF ~section.found.ok THEN x
    ELSE IF section.context /\ (PyTruthy(DictGetOrNone(x.d, section.k)) \/ ~section.asked) THEN x
    ELSE [x EXCEPT !.d = DictSet(@, section.k, section.found.v)]

RECURSIVE Sections(_, _)
\* the sections of an extractor, applied in the order of the code
Sections(x, sections) ==
    IF x.raised \/ sections = <<>> THEN x
    ELSE Sections(Step(x, Head(sections)), Tail(sections))

\* match.group(n) raises IndexError unless 0 <= n <= number of groups
GroupIndexValid(n, groups) == 0 <= n /\ n <= groups

\* the argument of match.group in the phone loop of the six extractors
PhoneGroupIndex == -1

AnyWordIn(text, words) == \E j \in 1..Len(words) : StrContains(text, words[j])

\* years?  and  yrs?
ReYears == ReCat(<<ReLit("year"), ReOpt(ReLit("s"))>>)
ReYrs == ReCat(<<ReLit("yr"), ReOpt(ReLit("s"))>>)
ReYearsOrYrs == ReAlt(<<ReYears, ReYrs>>)
\* \s*
ReSpaces == ReStar(ReSpace)
\* (?:is\s*)?(?::|=)?\s*
ReIsColon ==
    ReCat(<<ReOpt(ReCat(<<ReLit("is"), ReSpaces>>)), ReOpt(ReSet({":", "="})), ReSpaces>>)
\* a.*?b
ReThen(a, b) == ReCat(<<ReLit(a), ReLazyAny, ReLit(b)>>)
\* \d{m,n}
ReDigits(lo, hi) == ReRep(ReDigit, lo, hi)
\* [\d,]+(?:\.[\d,]+)?\s*(?:lakh|lakhs|crore|crores)?
ReAmount ==
    ReCat(<<RePlus(ReSet(DigitSet \cup {","})),
            ReOpt(ReCat(<<ReLit("."), RePlus(ReSet(DigitSet \cup {","}))>>)),
            ReSpaces, ReOpt(ReWords(<<"lakh", "lakhs", "crore", "crores">>))>>)
\* (?:k1|k2|...).*?(amount)
ReAmountAfter(keys) == ReCat(<<ReAlt(keys), ReLazyAny, ReGroup(1, ReAmount)>>)
\* (amount).*?(?:k1|k2|...)
ReAmountBefore(keys) == ReCat(<<ReGroup(1, ReAmount), ReLazyAny, ReAlt(keys)>>)

\* r'\b[A-Za-z0-9._%+-]+@[A-Za-z0-9.-]+\.[A-Z|a-z]{2,}\b'
EmailPattern ==
    ReCat(<<ReWordB, RePlus(ReSet(EmailLocalSet)), ReLit("@"), RePlus(ReSet(EmailDomainSet)),
            ReLit("."), ReRep(ReSet(LetterSet \cup {"|"}), 2, ReInf), ReWordB>>)

\* [6-9]\d{9}
ReMobile == ReCat(<<ReSet({"6", "7", "8", "9"}), ReDigits(9, 9)>>)
\* r'(?:\+?91[\s-]?)?([6-9]\d{9})'
PhonePattern1 ==
    ReCat(<<ReOpt(ReCat(<<ReOpt(ReLit("+")), ReLit("91"), ReOpt(ReSet(SpaceSet \cup {"-"}))>>)),
            ReGroup(1, ReMobile)>>)
\* r'(?:phone|mobile|contact|number)[\s:]*(\+?91)?[\s-]*([6-9]\d{9})'
PhonePattern2 ==
    ReCat(<<ReWords(<<"phone", "mobile", "contact", "number">>), ReStar(ReSet(SpaceSet \cup {":"})),
            ReOpt(ReGroup(1, ReCat(<<ReOpt(ReLit("+")), ReLit("91")>>))),
            ReStar(ReSet(SpaceSet \cup {"-"})), ReGroup(2, ReMobile)>>)

NoPhone == [raised |-> FALSE, ok |-> FALSE, phone |-> ""]

\* if len(phone) == 10 and phone[0] in '6789': the phone is taken
PhoneTaken(phone, otherwise) ==
    IF Len(phone) = 10 /\ Head(phone) \in {"6", "7", "8", "9"}
    THEN [raised |-> FALSE, ok |-> TRUE, phone |-> phone]
    ELSE otherwise

\* match.group(PhoneGroupIndex) of a match
PhoneGroup(user_text, match) ==
    IF PhoneGroupIndex = 0 THEN ReWhole(user_text, match)
    ELSE ReGroupText(user_text, match, PhoneGroupIndex)

\* one pattern of the phone loop: match.group raises for a group the pattern has not
PhoneTry(user_text, match, groups, otherwise) ==
    IF ~match.ok THEN otherwise
    ELSE IF ~GroupIndexValid(PhoneGroupIndex, groups)
    THEN [raised |-> TRUE, ok |-> FALSE, phone |-> ""]
    ELSE PhoneTaken(PhoneGroup(user_text, match), otherwise)

\* the phone loop: for each pattern that matches, phone = match.group(PhoneGroupIndex)
\* [raised, ok, phone]
PhoneLoop(user_text) ==
    PhoneTry(user_text, ReSearch(PhonePattern1, user_text), 1,
             PhoneTry(user_text, ReSearch(PhonePattern2, user_text), 2, NoPhone))

\* phone_digits is ten digits, the first of them 6 to 9
PhoneDigits(phone_digits) ==
    [ok |-> Len(phone_digits) = 10 /\ Head(phone_digits) \in {"6", "7", "8", "9"},
     phone |-> phone_digits]

\* the context-aware phone extraction: the digits of the message
ContextPhone(user_text) == PhoneDigits(StrKeep(user_text, DigitSet))

RECURSIVE FirstInt(_, _, _, _)
\* value = int(match.group(1)); if lo <= value <= hi: taken, else the next pattern
IntWithin(patterns, text, lo, hi, match, n) ==
    IF match.ok /\ lo <= n /\ n <= hi THEN [ok |-> TRUE, n |-> n]
    ELSE FirstInt(Tail(patterns), text, lo, hi)

IntRead(patterns, text, lo, hi, match) ==
    IntWithin(patterns, text, lo, hi, match, StrToInt(ReGroupText(text, match, 1)))

\* for pattern in patterns: the first int(match.group(1)) within lo..hi
FirstInt(patterns, text, lo, hi) ==
    IF patterns = <<>> THEN [ok |-> FALSE, n |-> 0]
    ELSE IntRead(patterns, text, lo, hi, ReSearch(Head(patterns), text))

RECURSIVE FirstAmount(_, _, _)
\* if amount and amount >= min: taken, else the next pattern
AmountEnough(patterns, text, min, match, amount) ==
    IF match.ok /\ amount # 0 /\ amount >= min THEN [ok |-> TRUE, n |-> amount]
    ELSE FirstAmount(Tail(patterns), text, min)

AmountRead(patterns, text, min, match) ==
    AmountEnough(patterns, text, min, match,
                 convert_amount_to_number(VStr(ReGroupText(text, match, 1))))

\* for pattern in patterns: the first convert_amount_to_number(match.group(1))
\* that is truthy and at least min
FirstAmount(patterns, text, min) ==
    IF patterns = <<>> THEN [ok |-> FALSE, n |-> 0]
    ELSE AmountRead(patterns, text, min, ReSearch(Head(patterns), text))

RECURSIVE FirstName(_, _, _)
\* a name that contains none of the excluded words is taken, else the next pattern
NameAllowed(patterns, user_text, excluded, match, name) ==
    IF match.ok /\ ~AnyWordIn(StrLower(name), excluded) THEN [ok |-> TRUE, name |-> name]
    ELSE FirstName(Tail(patterns), user_text, excluded)

NameRead(patterns, user_text, excluded, match) ==
    NameAllowed(patterns, user_text, excluded, match,
                StrTitle(StrStrip(ReGroupText(user_text, match, 1))))

\* for pattern in name_patterns: the first match.group(1).strip().title()
\* that contains none of the excluded words
FirstName(patterns, user_text, excluded) ==
    IF patterns = <<>> THEN [ok |-> FALSE, name |-> ""]
    ELSE NameRead(patterns, user_text, excluded, ReSearch(Head(patterns), user_text))

\* one to three alphabetic words, none a filler
NameWords(user_text, fillers, words) ==
    [ok |-> /\ 1 <= Len(words) /\ Len(words) <= 3
            /\ \A j \in 1..Len(words) : AllIn(words[j], LetterSet)
            /\ ~\E j \in 1..Len(words) : StrLower(words[j]) \in fillers,
     name |-> StrTitle(StrStrip(user_text))]

\* the context-aware name extraction: one to three alphabetic words, none a filler
ContextName(user_text, fillers) == NameWords(user_text, fillers, StrSplit(StrStrip(user_text)))

RECURSIVE FirstKeyword(_, _)
\* for keyword, value in mapping.items(): the value of the first keyword in the text
FirstKeyword(mapping, text) ==
    IF mapping = <<>> THEN [ok |-> FALSE, v |-> ""]
    ELSE IF StrContains(text, Head(mapping)[1]) THEN [ok |-> TRUE, v |-> Head(mapping)[2]]
    ELSE FirstKeyword(Tail(mapping), text)

\* r"(?:my name is|i am|i'm|call me|name:|this is)\s+([a-zA-Z\s]{2,30})", re.IGNORECASE
NamePattern1 ==
    ReCat(<<ReIWords(<<"my name is", "i am", "i'm", "call me", "name:", "this is">>),
            RePlus(ReSpace), ReGroup(1, ReRep(ReSet(LetterSet \cup SpaceSet), 2, 30))>>)
\* r"^([A-Z][a-zA-Z]+(?:\s+[A-Z][a-zA-Z]+)*)\s*$", re.IGNORECASE
NamePattern2 ==
    ReCat(<<ReBol,
            ReGroup(1, ReCat(<<ReSet(LetterSet), RePlus(ReSet(LetterSet)),
                               ReStar(ReCat(<<RePlus(ReSpace), ReSet(LetterSet),
                                              RePlus(ReSet(LetterSet))>>))>>)),
            ReSpaces, ReEol>>)
NameFillers == {"yes", "no", "ok", "sure", "hello", "hi"}

\* r'(?:age|years?\s*old|yrs?)\s*(?:is\s*)?(?::|=)?\s*(\d{1,2})'
AgePattern1 ==
    ReCat(<<ReAlt(<<ReLit("age"), ReCat(<<ReYears, ReSpaces, ReLit("old")>>), ReYrs>>),
            ReSpaces, ReIsColon, ReGroup(1, ReDigits(1, 2))>>)
\* r'(\d{1,2})\s*(?:years?\s*old|yrs?)'
AgePattern2 ==
    ReCat(<<ReGroup(1, ReDigits(1, 2)), ReSpaces,
            ReAlt(<<ReCat(<<ReYears, ReSpaces, ReLit("old")>>), ReYrs>>)>>)
\* r'i am\s*(\d{1,2})'
AgePattern3 == ReCat(<<ReLit("i am"), ReSpaces, ReGroup(1, ReDigits(1, 2))>>)
\* r'\b(\d{1,2})\b'
ContextAgePattern == ReCat(<<ReWordB, ReGroup(1, ReDigits(1, 2)), ReWordB>>)

\* r'(?:cibil|credit.*?score)\s*(?:is\s*)?(?::|=)?\s*(\d{3})'
CibilPattern1 ==
    ReCat(<<ReAlt(<<ReLit("cibil"), ReThen("credit", "score")>>), ReSpaces, ReIsColon,
            ReGroup(1, ReDigits(3, 3))>>)
\* r'(\d{3})\s*(?:cibil|credit.*?score)'
CibilPattern2 ==
    ReCat(<<ReGroup(1, ReDigits(3, 3)), ReSpaces,
            ReAlt(<<ReLit("cibil"), ReThen("credit", "score")>>)>>)

\* Sections 1 to 3 of an extractor (name, phone, email), the same code in the
\* six services but for the words excluded from a name and the filler words
ContactFallback(user_text, last_assistant_msg, excluded, fillers) ==
    Sections(Returned(EmptyDict),
        <<Section("Customer_Name",
                  NameOf(FirstName(<<NamePattern1, NamePattern2>>, user_text, excluded))),
          ContextSection("Customer_Name",
                         StrContains(last_assistant_msg, "name")
                             \/ StrContains(last_assistant_msg, "call you"),
                         NameOf(ContextName(user_text, fillers))),
          PhoneSection(PhoneLoop(user_text)),
          ContextSection("Customer_Phone",
                         AnyWordIn(last_assistant_msg, <<"phone", "mobile", "contact", "number">>),
                         PhoneOf(ContextPhone(user_text))),
          Section("Customer_Email", WholeOf(user_text, ReSearch(EmailPattern, user_text)))>>)

\* Sections 1 to 4 of an extractor (name, phone, email, age), the same code in
\* five services but for the words excluded from a name and the age range
CustomerFallback(user_text, last_assistant_msg, excluded, ageLo, ageHi) ==
    Sections(ContactFallback(user_text, last_assistant_msg, excluded, NameFillers),
        <<Section("Age", IntOf(FirstInt(<<AgePattern1, AgePattern2, AgePattern3>>,
                                        StrStrip(StrLower(user_text)), ageLo, ageHi))),
          ContextSection("Age", StrContains(last_assistant_msg, "age"),
                         IntOf(FirstInt(<<ContextAgePattern>>, user_text, ageLo, ageHi)))>>)

\* (?:loan.*?amount|need.*?loan|want.*?loan).*?(amount)
LoanAmountPattern1 ==
    ReAmountAfter(<<ReThen("loan", "amount"), ReThen("need", "loan"), ReThen("want", "loan")>>)
\* (amount).*?(?:loan.*?amount|need.*?loan)
LoanAmountPattern2 ==
    ReAmountBefore(<<ReThen("loan", "amount"), ReThen("need", "loan")>>)

\* r'(?:term|duration|years?)\s*(?:is\s*)?(?::|=)?\s*(\d+)\s*(?:years?|yrs?)'
TermPattern1 ==
    ReCat(<<ReAlt(<<ReLit("term"), ReLit("duration"), ReYears>>), ReSpaces, ReIsColon,
            ReGroup(1, RePlus(ReDigit)), ReSpaces, ReYearsOrYrs>>)
\* (\d+)\s*(?:years?|yrs?).*?(?:k1|k2|...)
ReYearsBefore(keys) ==
    ReCat(<<ReGroup(1, RePlus(ReDigit)), ReSpaces, ReYearsOrYrs, ReLazyAny, ReAlt(keys)>>)
\* (?:k1|k2|...).*?(\d+)\s*(?:years?|yrs?)
ReYearsAfter(keys) ==
    ReCat(<<ReAlt(keys), ReLazyAny, ReGroup(1, RePlus(ReDigit)), ReSpaces, ReYearsOrYrs>>)

PersonalEmploymentMapping ==
    << <<"self employed", "Self-Employed">>, <<"self-employed", "Self-Employed">>,
       <<"business", "Self-Employed">>, <<"entrepreneur", "Self-Employed">>,
       <<"salaried", "Salaried">>, <<"employee", "Salaried">>, <<"job", "Salaried">>,
       <<"working", "Salaried">> >>

\* sections 5 and following of PersonalLoanService._enhanced_fallback_extraction
PersonalFields(text_lower) ==
    <<  Section("Annual_Income", FloatOf(FirstAmount(
              <<ReAmountAfter(<<ReThen("annual", "income"), ReThen("yearly", "salary"),
                                ReThen("earn", "yearly")>>),
                ReAmountBefore(<<ReThen("annual", "income"), ReThen("yearly", "salary")>>)>>,
              text_lower, 200000))),
      Section("CIBIL_Score", IntOf(FirstInt(<<CibilPattern1, CibilPattern2>>, text_lower, 300, 900))),
      Section("Employment_Type", StrOf(FirstKeyword(PersonalEmploymentMapping, text_lower))),
      Section("Employment_Duration_Years", IntOf(FirstInt(
              <<ReYearsAfter(<<ReLit("working"), ReLit("employed"), ReLit("experience")>>),
                ReYearsBefore(<<ReLit("working"), ReLit("employed"), ReLit("experience")>>)>>,
              text_lower, 1, 45))),
      Section("Existing_EMIs", FloatOf(FirstAmount(
              <<ReAmountAfter(<<ReThen("existing", "emi"), ReThen("current", "emi"),
                                ReThen("monthly", "payment")>>),
                ReAmountBefore(<<ReThen("emi", "payment")>>)>>,
              text_lower, 0))),
      Section("Loan_Term_Years", IntOf(FirstInt(<<TermPattern1, ReYearsBefore(<<ReLit("term"), ReLit("duration")>>)>>,
              text_lower, 1, 7))),
      Section("Expected_Loan_Amount", FloatOf(FirstAmount(<<LoanAmountPattern1, LoanAmountPattern2>>, text_lower, 50000)))>>

\* PersonalLoanService._enhanced_fallback_extraction
PersonalFallback(user_text, last_assistant_msg) ==
    Sections(CustomerFallback(user_text, last_assistant_msg,
             <<"years", "old", "work", "job", "score">>, 21, 65),
             PersonalFields(StrStrip(StrLower(user_text))))

CarTypeMapping ==
    << <<"sedan", "Sedan">>, <<"suv", "SUV">>, <<"hatchback", "Hatchback">>,
       <<"coupe", "Coupe">>, <<"maruti", "Hatchback">>, <<"hyundai", "Sedan">>,
       <<"tata", "SUV">>, <<"honda", "Sedan">>, <<"swift", "Hatchback">>,
       <<"city", "Sedan">>, <<"creta", "SUV">>, <<"nexon", "SUV">> >>

\* (?:%|percent|percentage)
RePercent == ReAlt(<<ReLit("%"), ReLit("percent"), ReLit("percentage")>>)
\* (?:down.*?payment|advance)
ReDownPayment == ReAlt(<<ReThen("down", "payment"), ReLit("advance")>>)

\* the field an income is stored under: the co-applicant's when the last
\* message of the assistant contains "co"
SalaryField(last_assistant_msg) ==
    IF StrContains(last_assistant_msg, "co") \/ StrContains(last_assistant_msg, "coapplicant")
    THEN "Coapplicant_Annual_Income" ELSE "applicant_annual_salary"

\* sections 5 and following of CarLoanService._enhanced_fallback_extraction
CarFields(text_lower, last_assistant_msg) ==
    <<Section(SalaryField(last_assistant_msg), FloatOf(FirstAmount(
              <<ReAmountAfter(<<ReLit("salary"), ReLit("income"), ReLit("earn")>>),
                ReAmountBefore(<<ReLit("salary"), ReLit("income"), ReLit("monthly")>>)>>,
              text_lower, 300000))),
      Section("CIBIL", IntOf(FirstInt(<<CibilPattern1, CibilPattern2>>, text_lower, 300, 900))),
      Section("Car_Type", StrOf(FirstKeyword(CarTypeMapping, text_lower))),
      Section("down_payment_percent", IntOf(FirstInt(
              <<ReCat(<<ReDownPayment, ReLazyAny, ReGroup(1, RePlus(ReDigit)), ReSpaces, RePercent>>),
                ReCat(<<ReGroup(1, RePlus(ReDigit)), ReSpaces, RePercent, ReLazyAny, ReDownPayment>>)>>,
              text_lower, 10, 50))),
      Section("Tenure", IntOf(FirstInt(
              <<ReYearsAfter(<<ReLit("tenure"), ReLit("duration"), ReLit("period")>>),
                ReYearsBefore(<<ReLit("tenure"), ReLit("duration"), ReLit("period")>>)>>,
              text_lower, 1, 7))),
      Section("loan_amount", FloatOf(FirstAmount(<<LoanAmountPattern1, LoanAmountPattern2>>, text_lower, 100000)))>>

\* CarLoanService._enhanced_fallback_extraction
CarFallback(user_text, last_assistant_msg) ==
    Sections(CustomerFallback(user_text, last_assistant_msg,
             <<"years", "old", "work", "job", "score">>, 18, 80),
             CarFields(StrStrip(StrLower(user_text)), last_assistant_msg))

EducationCourseMapping ==
    << <<"engineering", "STEM">>, <<"computer science", "STEM">>, <<"cs", "STEM">>,
       <<"tech", "STEM">>, <<"mba", "MBA">>, <<"management", "MBA">>, <<"business", "MBA">>,
       <<"medicine", "Medicine">>, <<"medical", "Medicine">>, <<"mbbs", "Medicine">>,
       <<"doctor", "Medicine">>, <<"finance", "Finance">>, <<"banking", "Finance">>,
       <<"accounting", "Finance">>, <<"law", "Law">>, <<"legal", "Law">>, <<"llb", "Law">>,
       <<"arts", "Arts">>, <<"humanities", "Arts">>, <<"design", "Arts">>,
       <<"other", "Other">>, <<"different", "Other">> >>

\* tier_patterns: each key is a regular expression, an alternation of words
EducationTierPatterns ==
    << <<ReWords(<<"iit", "iim", "bits", "nit", "top", "premier", "tier1", "tier 1">>), "Tier1">>,
       <<ReWords(<<"good", "decent", "average", "tier2", "tier 2">>), "Tier2">>,
       <<ReWords(<<"local", "small", "private", "tier3", "tier 3">>), "Tier3">> >>

RECURSIVE FirstPattern(_, _)
\* for pattern, value in mapping.items(): the value of the first pattern found in the text
FirstPattern(mapping, text) ==
    IF mapping = <<>> THEN [ok |-> FALSE, v |-> ""]
    ELSE IF ReSearch(Head(mapping)[1], text).ok THEN [ok |-> TRUE, v |-> Head(mapping)[2]]
    ELSE FirstPattern(Tail(mapping), text)

\* (\d+(?:\.\d+)?)
ReDecimal == ReGroup(1, ReCat(<<RePlus(ReDigit), ReOpt(ReCat(<<ReLit("."), RePlus(ReDigit)>>))>>))
\* marks?
ReMarks == ReCat(<<ReLit("mark"), ReOpt(ReLit("s"))>>)
\* r'(?:academic\s*score|score|percentage|percent|marks?)\s*(?:is\s*)?(?::|=)?\s*(\d+(?:\.\d+)?)\s*(?:%|percent|percentage)?'
AcademicPattern1 ==
    ReCat(<<ReAlt(<<ReCat(<<ReLit("academic"), ReSpaces, ReLit("score")>>), ReLit("score"),
                    ReLit("percentage"), ReLit("percent"), ReMarks>>),
            ReSpaces, ReIsColon, ReDecimal, ReSpaces, ReOpt(RePercent)>>)
\* r'(?:got|scored|have|my)\s*(\d+(?:\.\d+)?)\s*(?:%|percent|percentage|marks?|score)'
AcademicPattern2 ==
    ReCat(<<ReWords(<<"got", "scored", "have", "my">>), ReSpaces, ReDecimal, ReSpaces,
            ReAlt(<<ReLit("%"), ReLit("percent"), ReLit("percentage"), ReMarks, ReLit("score")>>)>>)

RECURSIVE FirstScore(_, _)
\* if 0 <= score <= 100: taken, else the next pattern
ScoreWithin(patterns, text, match, score) ==
    IF match.ok /\ 0 <= score /\ score <= 100 THEN [ok |-> TRUE, n |-> score]
    ELSE FirstScore(Tail(patterns), text)

\* min(score / 10, 100) for a score in thousandths
ScoreTenth(tenth) == IF tenth >= 100 THEN 100 ELSE tenth

\* a score above 100 is taken as out of 1000
ScoreOf(read) ==
    IF read.n > 100 \/ (read.n = 100 /\ read.f > 0)
    THEN ScoreTenth((read.n * 1000 + read.f) \div 10000)
    ELSE read.n

ScoreRead(patterns, text, match) ==
    ScoreWithin(patterns, text, match, ScoreOf(StrToFloat(ReGroupText(text, match, 1))))

\* for pattern in academic_patterns: score = float(match.group(1)); a score
\* above 100 is min(score / 10, 100); the first score within 0..100.  The
\* score is kept to its integral part.
FirstScore(patterns, text) ==
    IF patterns = <<>> THEN [ok |-> FALSE, n |-> 0]
    ELSE ScoreRead(patterns, text, ReSearch(Head(patterns), text))

\* sections 5 and following of EducationLoanService._enhanced_fallback_extraction
EducationFields(text_lower) ==
    <<  Section("Academic_Score", FloatOf(FirstScore(<<AcademicPattern1, AcademicPattern2>>, text_lower))),
      Section("Intended_Course", StrOf(FirstKeyword(EducationCourseMapping, text_lower))),
      Section("University_Tier", StrOf(FirstPattern(EducationTierPatterns, text_lower))),
      Section("Coapplicant_Income", FloatOf(FirstAmount(
              <<ReCat(<<ReWords(<<"coapplicant", "co-applicant", "parent", "family">>), ReLazyAny,
                        ReLit("income"), ReLazyAny, ReGroup(1, ReAmount)>>),
                ReCat(<<ReLit("income"), ReLazyAny, ReGroup(1, ReAmount), ReLazyAny,
                        ReWords(<<"parent", "family">>)>>)>>,
              text_lower, 1))),
      Section("Guarantor_Networth", FloatOf(FirstAmount(
              <<ReAmountAfter(<<ReLit("guarantor"), ReLit("assets"), ReLit("networth"),
                                ReLit("property")>>),
                ReAmountBefore(<<ReLit("assets"), ReLit("property"), ReLit("worth")>>)>>,
              text_lower, 1))),
      Section("CIBIL_Score", IntOf(FirstInt(<<CibilPattern1, CibilPattern2>>, text_lower, 300, 900))),
      Section("Loan_Type", StrOf(IF StrContains(text_lower, "secured") \/ StrContains(text_lower, "collateral")
              THEN [ok |-> TRUE, v |-> "Secured"]
              ELSE IF StrContains(text_lower, "unsecured")
                      \/ StrContains(text_lower, "no collateral")
              THEN [ok |-> TRUE, v |-> "Unsecured"]
              ELSE [ok |-> FALSE, v |-> ""])),
      Section("Loan_Term", IntOf(FirstInt(
              <<TermPattern1, ReYearsBefore(<<ReThen("loan", "term"), ReLit("duration")>>)>>,
              text_lower, 1, 15))),
      Section("Expected_Loan_Amount", FloatOf(FirstAmount(<<LoanAmountPattern1, LoanAmountPattern2>>, text_lower, 1)))>>

\* EducationLoanService._enhanced_fallback_extraction
EducationFallback(user_text, last_assistant_msg) ==
    Sections(CustomerFallback(user_text, last_assistant_msg,
             <<"years", "old", "score", "percent", "tier">>, 18, 35),
             EducationFields(StrStrip(StrLower(user_text))))

HomeEmploymentMapping ==
    << <<"business", "Business Owner">>, <<"business owner", "Business Owner">>,
       <<"entrepreneur", "Business Owner">>, <<"salaried", "Salaried">>,
       <<"employee", "Salaried">>, <<"job", "Salaried">>,
       <<"government", "Government Employee">>, <<"govt", "Government Employee">>,
       <<"public sector", "Government Employee">>, <<"self employed", "Self-Employed">>,
       <<"self-employed", "Self-Employed">>, <<"freelance", "Self-Employed">>,
       <<"consultant", "Self-Employed">> >>

\* r'(?:tenure|duration|years?)\s*(?:is\s*)?(?::|=)?\s*(\d+)\s*(?:years?|yrs?)'
TenurePattern1 ==
    ReCat(<<ReAlt(<<ReLit("tenure"), ReLit("duration"), ReYears>>), ReSpaces, ReIsColon,
            ReGroup(1, RePlus(ReDigit)), ReSpaces, ReYearsOrYrs>>)

\* sections 5 and following of HomeLoanService._enhanced_fallback_extraction
HomeFields(text_lower) ==
    <<  Section("Income", FloatOf(FirstAmount(
              <<ReAmountAfter(<<ReThen("monthly", "income"), ReLit("salary"),
                                ReThen("earn", "monthly")>>),
                ReAmountBefore(<<ReThen("monthly", "income"), ReLit("salary")>>)>>,
              text_lower, 1))),
      Section("Guarantor_income", FloatOf(FirstAmount(
              <<ReAmountAfter(<<ReThen("guarantor", "income"), ReThen("guarantor", "salary")>>),
                ReAmountBefore(<<ReThen("guarantor", "income")>>)>>,
              text_lower, 0))),
      Section("CIBIL_score", IntOf(FirstInt(<<CibilPattern1, CibilPattern2>>, text_lower, 300, 900))),
      Section("Employment_type", StrOf(FirstKeyword(HomeEmploymentMapping, text_lower))),
      Section("Down_payment", FloatOf(FirstAmount(<<ReAmountAfter(<<ReDownPayment>>), ReAmountBefore(<<ReDownPayment>>)>>,
              text_lower, 0))),
      Section("Existing_total_EMI", FloatOf(FirstAmount(
              <<ReAmountAfter(<<ReThen("existing", "emi"), ReThen("current", "emi")>>),
                ReAmountBefore(<<ReThen("emi", "payment")>>)>>,
              text_lower, 0))),
      Section("Loan_amount_requested", FloatOf(FirstAmount(<<LoanAmountPattern1, LoanAmountPattern2>>, text_lower, 1))),
      Section("Property_value", FloatOf(FirstAmount(
              <<ReAmountAfter(<<ReThen("property", "value"), ReThen("house", "value"),
                                ReThen("home", "price")>>),
                ReAmountBefore(<<ReThen("property", "value"), ReThen("house", "price")>>)>>,
              text_lower, 1))),
      Section("Tenure", IntOf(FirstInt(
              <<TenurePattern1, ReYearsBefore(<<ReLit("tenure"), ReLit("duration")>>)>>,
              text_lower, 5, 30)))>>

\* HomeLoanService._enhanced_fallback_extraction
HomeFallback(user_text, last_assistant_msg) ==
    Sections(CustomerFallback(user_text, last_assistant_msg,
             <<"years", "old", "work", "job", "score">>, 21, 50),
             HomeFields(StrStrip(StrLower(user_text))))

GoldOccupationMapping ==
    << <<"salaried", "Salaried">>, <<"employee", "Salaried">>, <<"job", "Salaried">>,
       <<"working", "Salaried">>, <<"retired", "Retired">>, <<"pension", "Retired">>,
       <<"senior", "Retired">>, <<"business", "Business">>, <<"businessman", "Business">>,
       <<"trader", "Business">>, <<"merchant", "Business">>,
       <<"self employed", "Self-employed">>, <<"self-employed", "Self-employed">>,
       <<"freelance", "Self-employed">>, <<"consultant", "Self-employed">> >>

\* sections 5 and following of GoldLoanService._enhanced_fallback_extraction
GoldFields(text_lower) ==
    <<  Section("Annual_Income", FloatOf(FirstAmount(
              <<ReAmountAfter(<<ReThen("annual", "income"), ReLit("salary"), ReLit("earn")>>),
                ReAmountBefore(<<ReThen("annual", "income"), ReLit("salary"), ReLit("yearly")>>)>>,
              text_lower, 180000))),
      Section("CIBIL_Score", IntOf(FirstInt(<<CibilPattern1, CibilPattern2>>, text_lower, 300, 900))),
      Section("Occupation", StrOf(FirstKeyword(GoldOccupationMapping, text_lower))),
      Section("Gold_Value", FloatOf(FirstAmount(
              <<ReAmountAfter(<<ReThen("gold", "value"), ReThen("gold", "worth"),
                                ReThen("jewelry", "value")>>),
                ReAmountBefore(<<ReThen("gold", "value"), ReThen("gold", "worth")>>)>>,
              text_lower, 10000))),
      Section("Loan_Amount", FloatOf(FirstAmount(<<LoanAmountPattern1, LoanAmountPattern2>>, text_lower, 5000))),
      Section("Loan_Tenure", IntOf(FirstInt(
              <<TenurePattern1, ReYearsBefore(<<ReLit("tenure"), ReLit("duration")>>)>>,
              text_lower, 1, 3)))>>

\* GoldLoanService._enhanced_fallback_extraction
GoldFallback(user_text, last_assistant_msg) ==
    Sections(CustomerFallback(user_text, last_assistant_msg,
             <<"years", "old", "work", "job", "score">>, 21, 75),
             GoldFields(StrStrip(StrLower(user_text))))

BusinessTypeKeywords ==
    << <<"retail", "Retail">>, <<"shop", "Retail">>, <<"store", "Retail">>,
       <<"selling", "Retail">>, <<"trading", "Trading">>, <<"trade", "Trading">>,
       <<"import", "Trading">>, <<"export", "Trading">>, <<"service", "Services">>,
       <<"services", "Services">>, <<"consulting", "Services">>, <<"agency", "Services">>,
       <<"manufacturing", "Manufacturing">>, <<"manufacture", "Manufacturing">>,
       <<"factory", "Manufacturing">>, <<"production", "Manufacturing">> >>

IndustryKeywords ==
    << <<"healthcare", "Healthcare">>, <<"health", "Healthcare">>, <<"medical", "Healthcare">>,
       <<"hospital", "Healthcare">>, <<"fmcg", "FMCG">>, <<"consumer goods", "FMCG">>,
       <<"goods", "FMCG">>, <<"it services", "IT Services">>, <<"it service", "IT Services">>,
       <<"software", "IT Services">>, <<"tech", "IT Services">>, <<"technology", "IT Services">>,
       <<"education", "Education">>, <<"school", "Education">>, <<"college", "Education">>,
       <<"training", "Education">>, <<"automobile", "Automobile">>, <<"auto", "Automobile">>,
       <<"car", "Automobile">>, <<"vehicle", "Automobile">>, <<"telecom", "Telecom">>,
       <<"telecommunications", "Telecom">>, <<"mobile", "Telecom">>, <<"network", "Telecom">>,
       <<"real estate", "Real Estate">>, <<"property", "Real Estate">>,
       <<"construction", "Real Estate">>, <<"builder", "Real Estate">>,
       <<"hospitality", "Hospitality">>, <<"hotel", "Hospitality">>,
       <<"restaurant", "Hospitality">>, <<"food", "Hospitality">>, <<"tourism", "Hospitality">>,
       <<"crypto", "Crypto">>, <<"cryptocurrency", "Crypto">>, <<"blockchain", "Crypto">>,
       <<"airline", "Airlines">>, <<"airlines", "Airlines">>, <<"aviation", "Airlines">>,
       <<"flight", "Airlines">> >>

LocationKeywords ==
    << <<"tier-1", "Tier-1 City">>, <<"tier 1", "Tier-1 City">>, <<"metro", "Tier-1 City">>,
       <<"metropolitan", "Tier-1 City">>, <<"mumbai", "Tier-1 City">>, <<"delhi", "Tier-1 City">>,
       <<"bangalore", "Tier-1 City">>, <<"chennai", "Tier-1 City">>, <<"kolkata", "Tier-1 City">>,
       <<"hyderabad", "Tier-1 City">>, <<"pune", "Tier-1 City">>, <<"tier-2", "Tier-2 City">>,
       <<"tier 2", "Tier-2 City">>, <<"tier-3", "Tier-3 City">>, <<"tier 3", "Tier-3 City">>,
       <<"small city", "Tier-3 City">>, <<"rural", "Rural">>, <<"village", "Rural">>,
       <<"town", "Rural">> >>

YesIndicators ==
    <<"yes", "yeah", "yep", "have", "available", "got", "do have", "we have", "there is", "exists">>
NoIndicators ==
    <<"no", "don't", "dont", "not", "none", "don't have", "do not have", "not available",
      "no we", "not have">>

\* r'\b(\d{3})\b'
ContextCibilPattern == ReCat(<<ReWordB, ReGroup(1, ReDigits(3, 3)), ReWordB>>)
\* r'\b1\b', r'\b2\b', r'\b3\b'
ReLoneDigit(c) == ReCat(<<ReWordB, ReLit(c), ReWordB>>)
\* r'tier\s*[- ]?(1|2|3)'
ContextTierPattern ==
    ReCat(<<ReLit("tier"), ReSpaces, ReOpt(ReSet({"-", " "})), ReGroup(1, ReSet({"1", "2", "3"}))>>)

\* the amount kept by section 12 of the business extractor
ExistingKept(amount_match, amount) ==
    IF amount_match.ok /\ amount >= 0 THEN [ok |-> TRUE, v |-> VFloat(amount)]
    ELSE [ok |-> FALSE, v |-> VNone]

\* amount_match = re.search(r'([\d,]+(?:\.[\d,]+)?\s*(?:lakh|lakhs|crore|crores)?)', text_lower)
ExistingRead(text_lower, amount_match) ==
    ExistingKept(amount_match,
                 convert_amount_to_number(VStr(ReGroupText(text_lower, amount_match, 1))))

\* section 12 of the business extractor and its context-aware repetition: the
\* words that mean no loan give the int 0, any other amount is kept
ExistingLoanAmount(text_lower, none_words) ==
    IF AnyWordIn(text_lower, none_words) THEN [ok |-> TRUE, v |-> VInt(0)]
    ELSE ExistingRead(text_lower, ReSearch(ReGroup(1, ReAmount), text_lower))

\* ([\d,]+(?:\.[\d,]+)?\s*(?:lakh|lakhs|crore|crores)?)
BareAmountPatterns == <<ReGroup(1, ReAmount)>>
\* (?:business|company|operating|established)
EstablishedWords ==
    <<ReLit("business"), ReLit("company"), ReLit("operating"), ReLit("established")>>
\* (?:cibil|credit.*?score)
CreditWords == <<ReLit("cibil"), ReThen("credit", "score")>>
\* (?:tenure|repayment|period|term)
RepaymentWords == ReWords(<<"tenure", "repayment", "period", "term">>)

\* sections 9 and 10 of the business extractor: a yes or a no is the answer
\* to the question about the collateral, or else about the guarantor
YesNoSection(last_assistant_msg, has_yes, has_no) ==
    Section(IF StrContains(last_assistant_msg, "collateral") THEN "Has_Collateral"
            ELSE "Has_Guarantor",
            [ok |-> /\ (has_yes /\ ~has_no) \/ (has_no /\ ~has_yes)
                    /\ \/ StrContains(last_assistant_msg, "collateral")
                       \/ StrContains(last_assistant_msg, "guarantor"),
             v |-> VStr(IF has_yes /\ ~has_no THEN "Yes" ELSE "No")])

\* the tier named by a digit in the answer to the question about the location
ContextTier(text_lower, tier_match) ==
    IF tier_match.ok
    THEN [ok |-> TRUE, v |-> "Tier-" \o ReGroupText(text_lower, tier_match, 1) \o " City"]
    ELSE IF ReSearch(ReLoneDigit("1"), text_lower).ok THEN [ok |-> TRUE, v |-> "Tier-1 City"]
    ELSE IF ReSearch(ReLoneDigit("2"), text_lower).ok THEN [ok |-> TRUE, v |-> "Tier-2 City"]
    ELSE IF ReSearch(ReLoneDigit("3"), text_lower).ok THEN [ok |-> TRUE, v |-> "Tier-3 City"]
    ELSE [ok |-> FALSE, v |-> ""]

\* sections 4 and following of BusinessLoanService._enhanced_fallback_extraction
BusinessFields(user_text, text_lower, last_assistant_msg) ==
    <<Section("Business_Age_Years", IntOf(FirstInt(
              <<ReYearsAfter(EstablishedWords), ReYearsBefore(EstablishedWords),
                ReCat(<<ReWords(<<"since", "for", "past">>), ReSpaces, ReGroup(1, RePlus(ReDigit)),
                        ReSpaces, ReYearsOrYrs>>),
                ReCat(<<ReGroup(1, RePlus(ReDigit)), ReSpaces, ReYearsOrYrs, ReSpaces,
                        ReWords(<<"old", "experience", "in business">>)>>)>>,
              text_lower, 1, 50))),
      ContextSection("Business_Age_Years",
                     AnyWordIn(last_assistant_msg,
                               <<"business", "operating", "years", "how long", "how many">>),
                     IntOf(FirstInt(<<ContextAgePattern>>, user_text, 1, 50))),
      Section("Annual_Revenue", FloatOf(FirstAmount(
              <<ReAmountAfter(<<ReLit("revenue"), ReLit("turnover"), ReLit("income"),
                                ReLit("earning")>>),
                ReAmountAfter(<<ReLit("make"), ReLit("earn"), ReLit("generate")>>),
                ReAmountBefore(<<ReLit("revenue"), ReLit("turnover"), ReLit("yearly")>>)>>,
              text_lower, 100000))),
      ContextSection("Annual_Revenue",
                     AnyWordIn(last_assistant_msg, <<"revenue", "turnover", "income", "yearly">>),
                     FloatOf(FirstAmount(BareAmountPatterns, text_lower, 100000))),
      Section("Net_Profit", FloatOf(FirstAmount(
              <<ReAmountAfter(<<ReLit("profit"), ReLit("net profit")>>),
                ReAmountBefore(<<ReLit("profit"), ReLit("net")>>)>>,
              text_lower, 10000))),
      ContextSection("Net_Profit", StrContains(last_assistant_msg, "profit"),
                     FloatOf(FirstAmount(BareAmountPatterns, text_lower, 10000))),
      Section("CIBIL_Score", IntOf(FirstInt(
              <<ReCat(<<ReAlt(CreditWords), ReLazyAny, ReGroup(1, ReDigits(3, 3))>>),
                ReCat(<<ReGroup(1, ReDigits(3, 3)), ReLazyAny, ReAlt(CreditWords)>>),
                ReCat(<<ReWords(<<"score", "rating">>), ReLazyAny, ReGroup(1, ReDigits(3, 3))>>)>>,
              text_lower, 300, 900))),
      ContextSection("CIBIL_Score",
                     AnyWordIn(last_assistant_msg, <<"cibil", "credit score", "score">>),
                     IntOf(FirstInt(<<ContextCibilPattern>>, user_text, 300, 900))),
      Section("Business_Type", StrOf(FirstKeyword(BusinessTypeKeywords, text_lower))),
      YesNoSection(last_assistant_msg, AnyWordIn(text_lower, YesIndicators),
                   AnyWordIn(text_lower, NoIndicators)),
      Section("Expected_Loan_Amount", FloatOf(FirstAmount(
              <<ReAmountAfter(<<ReLit("need"), ReLit("want"), ReLit("require"),
                                ReLit("looking for")>>),
                ReAmountAfter(<<ReThen("loan", "amount"), ReThen("amount", "loan")>>),
                ReAmountBefore(<<ReLit("loan"), ReLit("amount")>>)>>,
              text_lower, 100000))),
      ContextSection("Expected_Loan_Amount",
                     AnyWordIn(last_assistant_msg,
                               <<"loan amount", "how much", "amount need", "amount require">>),
                     FloatOf(FirstAmount(BareAmountPatterns, text_lower, 100000))),
      Section("Loan_Tenure_Years", IntOf(FirstInt(
              <<ReCat(<<RepaymentWords, ReLazyAny, ReGroup(1, ReDigits(1, 2))>>),
                ReCat(<<ReGroup(1, ReDigits(1, 2)), ReSpaces,
                        ReAlt(<<ReYears, ReLit("year"), ReYrs, ReLit("yr")>>),
                        ReOpt(ReCat(<<ReSpaces, RepaymentWords>>))>>),
                ReCat(<<ReWords(<<"for", "over", "in">>), ReSpaces, ReGroup(1, ReDigits(1, 2)),
                        ReSpaces, ReYearsOrYrs>>)>>,
              text_lower, 1, 10))),
      ContextSection("Loan_Tenure_Years",
                     AnyWordIn(last_assistant_msg, <<"tenure", "repayment", "period", "years">>),
                     IntOf(FirstInt(<<ReGroup(1, ReDigits(1, 2))>>, text_lower, 1, 10))),
      Section("Existing_Loan_Amount",
              Only(AnyWordIn(text_lower, <<"existing", "current", "outstanding", "emi">>),
                   ExistingLoanAmount(text_lower, <<"none", "no", "zero", "0", "not have">>))),
      ContextSection("Existing_Loan_Amount", StrContains(last_assistant_msg, "existing"),
                     ExistingLoanAmount(text_lower, <<"none", "no", "zero", "0">>)),
      Section("Industry_Risk_Rating", StrOf(FirstKeyword(IndustryKeywords, text_lower))),
      Section("Location_Tier", StrOf(FirstKeyword(LocationKeywords, text_lower))),
      ContextSection("Location_Tier",
                     AnyWordIn(last_assistant_msg, <<"location", "tier", "city", "where">>),
                     StrOf(ContextTier(text_lower, ReSearch(ContextTierPattern, text_lower))))>>

\* BusinessLoanService._enhanced_fallback_extraction
BusinessFallback(user_text, last_assistant_msg) ==
    Sections(ContactFallback(user_text, last_assistant_msg,
                 <<"years", "old", "work", "job", "salary", "business", "company",
                   "manufacturing", "retail", "services", "trading">>,
                 NameFillers \cup {"good", "fine"}),
             BusinessFields(user_text, StrStrip(StrLower(user_text)), last_assistant_msg))

(***************************************************************************)
(* The assistant's messages: greetings, follow-up questions, the progress  *)
(* acknowledgement and the verdict message.  A reply of the language model *)
(* is [fails, text]: the call raises, or returns the text.                 *)
(***************************************************************************)
CarGreetings ==
    <<"Hello! I'm a car loan specialist here to help you with your car loan application. Car loans can help you purchase your dream vehicle with flexible repayment options. Let's start with your full name - what should I call you?",
      "Hi there! I'm excited to help you with your car loan journey. Getting the right financing can make your dream car a reality. May I know your name to get started?",
      "Welcome! As your car loan advisor, I'm here to guide you through the application process. Let's begin with your name - what would you like me to call you?",
      "Greetings! I specialize in car loans and I'm here to assist you in finding the perfect financing option. Could you share your name with me to get started?">>

\* service.get_fallback_greeting(): the greetings it can return (the car
\* service draws one of four with np.random.choice)
get_fallback_greeting(lt) ==
    CASE lt = "personal" ->
           {"Hello! I'm a personal loan specialist here to help you with your loan application. Let's start with your full name - what should I call you?"}
      [] lt = "education" ->
           {"Hello! I'm here to help you with your education loan application. To get started, may I have your full name please?"}
      [] lt = "home" ->
           {"Hello! I'm a home loan specialist. I'm here to help you with your home loan application. Let's start with your full name - what should I call you?"}
      [] lt = "gold" ->
           {"Hello! I'm a gold loan specialist here to help you with your gold loan application. Gold loans offer quick financing against your gold jewelry. Let's start with your full name - what should I call you?"}
      [] lt = "business" ->
           {"Hello! I'm a business loan specialist here to help you with your business loan application. Business loans can help expand your operations, purchase equipment, or manage cash flow. Let's start with your full name - what should I call you?"}
      [] lt = "car" -> SeqSet(CarGreetings)

\* BaseLoanService.assistant_greeting: the greetings it can return
assistant_greeting(lt, client, reply) ==
    IF ~client \/ reply.fails THEN get_fallback_greeting(lt) ELSE {reply.text}

FollowupTemplates ==
    << <<"Customer_Name", "Please share your full name (e.g., Riya Sharma).">>,
       <<"Customer_Email", "What is your email address? (e.g., riya.sharma@example.com)">>,
       <<"Customer_Phone", "What is your 10-digit phone number? (digits only, e.g., 9876543210)">>,
       <<"Age", "What is your age in years? (e.g., 24)">>,
       <<"Academic_Score", "What's your academic score out of 100? (e.g., 82)">>,
       <<"Intended_Course", "Which course are you planning to pursue? Choose one: STEM, MBA, Medicine, Finance, Law, Arts, Other.">>,
       <<"University_Tier", "What is your university tier? Choose one: Tier1, Tier2, Tier3.">>,
       <<"Coapplicant_Income", "What is the annual co-applicant income in INR? (e.g., 600000)">>,
       <<"Guarantor_Networth", "What is the guarantor's total net worth in INR? (e.g., 1500000)">>,
       <<"CIBIL_Score", "What is your CIBIL score? (650-900, e.g., 720)">>,
       <<"Loan_Type", "Do you want a Secured loan (with collateral) or Unsecured loan (no collateral)?">>,
       <<"Loan_Term", "What loan term do you prefer in years? (1-15, e.g., 5)">>,
       <<"Expected_Loan_Amount", "What loan amount are you looking for in INR? (e.g., 800000)">> >>

\* BaseLoanService.get_fallback_followup
get_fallback_followup(missing_fields) ==
    IF missing_fields = <<>> THEN "Thank you for providing all the information!"
    ELSE LET Template(next_field, known) ==
                 IF known # {} THEN FollowupTemplates[CHOOSE j \in known : TRUE][2]
                 ELSE "I'd like to know your " \o StrLower(StrReplaceChar(next_field, "_", " "))
                      \o ". Please provide it in a short, clear format."
         IN Template(missing_fields[1],
                     {j \in 1..Len(FollowupTemplates) : FollowupTemplates[j][1] = missing_fields[1]})

\* a follow-up that asks for the last of the missing fields
FollowupAskingLast(client, missing_fields, reply) ==
    IF missing_fields = <<>> THEN "Thank you for providing all the information!"
    ELSE IF ~client \/ reply.fails
    THEN get_fallback_followup(<<missing_fields[Len(missing_fields)]>>)
    ELSE reply.text

\* BaseLoanService.assistant_followup
assistant_followup(client, missing_fields, reply) ==
    IF missing_fields = <<>> THEN "Thank you for providing all the information!"
    ELSE IF ~client THEN get_fallback_followup(missing_fields)
    ELSE IF reply.fails THEN get_fallback_followup(missing_fields)
    ELSE reply.text

\* f"{n:,}" and f"{n:,.0f}" for a number of integral value
FormatGrouped(n) ==
    IF n < 0 THEN "-" \o GroupThousands(NatToStr(-n)) ELSE GroupThousands(NatToStr(n))

\* str(x) for the float x = h / 100, a number of hundredths
FormatHundredths(h) ==
    LET Fraction(cents) == IF cents % 10 = 0 THEN NatToStr(cents \div 10)
                           ELSE NatToStr(cents \div 10) \o NatToStr(cents % 10)
        Digits(a) == NatToStr(a \div 100) \o "." \o Fraction(a % 100)
    IN IF h < 0 THEN "-" \o Digits(-h) ELSE Digits(h)

RECURSIVE RecordedItems(_)
\* the recorded_items of the follow-up branch of chat_message
RecordedItems(recorded_now) ==
    IF recorded_now = <<>> THEN <<>>
    ELSE LET Item(field_display, v) ==
                 IF IsNum(v) /\ v.n > 1000 THEN field_display \o ": Rs." \o FormatGrouped(v.n)
                 ELSE field_display \o ": " \o PyStr(v)
             Listed(k, v) ==
                 IF StrStartsWith(k, "Customer_") THEN <<>>
                 ELSE <<Item(StrTitle(StrReplaceChar(k, "_", " ")), v)>>
         IN Listed(Head(recorded_now).k, Head(recorded_now).v)
            \o RecordedItems(Tail(recorded_now))

\* the progress_msg of the follow-up branch of chat_message
ProgressMessage(recorded_now) ==
    LET Progress(recorded_items) ==
            IF recorded_items = <<>> THEN ""
            ELSE "Great! I've recorded: " \o JoinComma(recorded_items) \o ". "
    IN Progress(RecordedItems(recorded_now))

(***************************************************************************)
(* The decision engine.  The fitted estimators are files that are not part *)
(* of the source: what they compute is an input of the model, a record     *)
(* [fails, loan, rate] (the estimator raises, or predicts an amount and a  *)
(* rate).  Rates are counted in hundredths of a percent.                   *)
(***************************************************************************)
Clamp(x, lo, hi) == IF x < lo THEN lo ELSE IF x > hi THEN hi ELSE x

Predicted(loan, rate) == [ok |-> TRUE, loan |-> loan, rate |-> rate]
PredictionFailed == [ok |-> FALSE, loan |-> 0, rate |-> 0]

\* a prediction handed on as the estimators made it
PersonalPredictUnclamped(user_input, models, ml) ==
    IF ~models \/ ml.fails THEN PredictionFailed ELSE Predicted(ml.loan, ml.rate)

\* PersonalLoanService.predict_loan
PersonalPredict(user_input, models, ml) ==
    IF ~models \/ ml.fails THEN PredictionFailed
    ELSE Predicted(Clamp(ml.loan, 50000, 2000000), Clamp(ml.rate, 800, 1800))

\* a prediction that answers zero when the estimators are not loaded
EducationPredictWithDefault(user_input, models, ml) ==
    IF ~models THEN Predicted(0, 0)
    ELSE IF ml.fails THEN PredictionFailed ELSE Predicted(ml.loan, ml.rate)

\* EducationLoanService.predict_loan
EducationPredict(user_input, models, ml) ==
    IF ~models \/ ml.fails THEN PredictionFailed ELSE Predicted(ml.loan, ml.rate)

\* HomeLoanService.validate_complete_data
validate_complete_data(user_input) ==
    LET Compared(loan_amount, property_value) ==
            IF ~(loan_amount.ok /\ property_value.ok)
            THEN Reject("There was an error validating your information. Please check all the values you provided.")
            ELSE IF loan_amount.n > property_value.n
            THEN Reject("The loan amount requested (Rs." \o FormatGrouped(loan_amount.n)
                        \o ") cannot be more than the property value (Rs."
                        \o FormatGrouped(property_value.n)
                        \o "). Please adjust your loan amount or property value.")
            ELSE Accept
    IN IF DictHas(user_input, "Loan_amount_requested") /\ DictHas(user_input, "Property_value")
       THEN Compared(PyFloat(DictGet(user_input, "Loan_amount_requested")),
                     PyFloat(DictGet(user_input, "Property_value")))
       ELSE Accept

\* HomeLoanService.predict_loan with prepare_model_input
HomePredict(user_input, models, ml) ==
    IF ~validate_complete_data(user_input).ok THEN PredictionFailed
    ELSE IF ~models \/ ml.fails THEN PredictionFailed
    ELSE Predicted(ml.loan, ml.rate)

IndustryRiskMap ==
    {"Healthcare", "FMCG", "IT Services", "Education", "Automobile", "Telecom", "Real Estate",
     "Hospitality", "Crypto", "Airlines"}
LocationTierMap == {"Metro", "Tier-1 City", "Tier-2 City", "Rural"}

\* BusinessLoanService.predict_loan with prepare_model_input: a rating or a
\* tier that is no key of its map raises KeyError, a revenue of zero
\* ZeroDivisionError
BusinessPredict(user_input, models, ml) ==
    IF \/ PyFloat(DictGet(user_input, "Annual_Revenue")).n = 0
       \/ DictGet(user_input, "Industry_Risk_Rating") \notin {VStr(x) : x \in IndustryRiskMap}
       \/ DictGet(user_input, "Location_Tier") \notin {VStr(x) : x \in LocationTierMap}
    THEN PredictionFailed
    ELSE IF ~models \/ ml.fails THEN PredictionFailed
    ELSE Predicted(Clamp(ml.loan, 100000, 100000000), Clamp(ml.rate, 800, 2400))

\* round(x) for x = n * 0.8
RoundFourFifths(n) == (n * 8 + 5) \div 10

\* GoldLoanService.predict_loan
GoldPredict(user_input, models, ml) ==
    IF ~models \/ ml.fails THEN PredictionFailed
    ELSE LET Floor(capped) == IF capped < 5000 THEN 5000 ELSE capped
             Cap(max_loan_based_on_gold) ==
                 Floor(IF ml.loan < max_loan_based_on_gold THEN ml.loan
                       ELSE max_loan_based_on_gold)
         IN Predicted(Cap(RoundFourFifths(PyFloat(DictGet(user_input, "Gold_Value")).n)),
                      Clamp(ml.rate, 800, 2400))

CarTypeMap == {"Sedan", "SUV", "Hatchback", "Coupe"}

\* CarLoanService.predict_loan with prepare_model_input
CarPredict(user_input, models, ml) ==
    IF DictGet(user_input, "Car_Type") \notin {VStr(x) : x \in CarTypeMap} THEN PredictionFailed
    ELSE IF ~models \/ ml.fails THEN PredictionFailed
    ELSE Predicted(Clamp(ml.loan, 100000, 50000000), Clamp(ml.rate, 700, 2000))

\* service.predict_loan(prediction_input): [ok, loan, rate], ok = FALSE when it raises
predict_loan(lt, user_input, models, ml) ==
    CASE lt = "education" -> EducationPredict(user_input, models, ml)
      [] lt = "home" -> HomePredict(user_input, models, ml)
      [] lt = "personal" -> PersonalPredict(user_input, models, ml)
      [] lt = "business" -> BusinessPredict(user_input, models, ml)
      [] lt = "gold" -> GoldPredict(user_input, models, ml)
      [] lt = "car" -> CarPredict(user_input, models, ml)

\* numeric_fields of chat_message
NumericFields(lt) ==
    CASE lt = "education" ->
           {"Age", "Academic_Score", "Coapplicant_Income", "Guarantor_Networth", "CIBIL_Score",
            "Loan_Term", "Expected_Loan_Amount"}
      [] lt = "home" ->
           {"Age", "Income", "Guarantor_income", "Tenure", "CIBIL_score", "Down_payment",
            "Existing_total_EMI", "Loan_amount_requested", "Property_value"}
      [] lt = "personal" ->
           {"Age", "Employment_Duration_Years", "Annual_Income", "CIBIL_Score", "Existing_EMIs",
            "Loan_Term_Years", "Expected_Loan_Amount"}
      [] lt = "business" ->
           {"Business_Age_Years", "Annual_Revenue", "Net_Profit", "CIBIL_Score",
            "Existing_Loan_Amount", "Loan_Tenure_Years", "Expected_Loan_Amount"}
      [] lt = "gold" ->
           {"Age", "Annual_Income", "CIBIL_Score", "Gold_Value", "Loan_Amount", "Loan_Tenure"}
      [] lt = "car" ->
           {"Age", "applicant_annual_salary", "Coapplicant_Annual_Income", "CIBIL",
            "down_payment_percent", "Tenure", "loan_amount"}

\* amount_field_mapping of chat_message
AmountField(lt) ==
    CASE lt = "home" -> "Loan_amount_requested"
      [] lt = "gold" -> "Loan_Amount"
      [] lt = "car" -> "loan_amount"
      [] OTHER -> "Expected_Loan_Amount"

DefaultRequestedAmount == 500000

\* typed: the profile with every numeric field coerced by _to_float
TypedProfile(lt, user_profile) ==
    SubSeq([i \in 1..Len(user_profile) |->
               IF user_profile[i].k \in NumericFields(lt)
               THEN [k |-> user_profile[i].k, v |-> VFloat(_to_float(user_profile[i].v))]
               ELSE user_profile[i]],
           1, Len(user_profile))

\* the profile of the summary: int(v) for the floats of the numeric fields
SummaryProfile(lt, typed) ==
    SubSeq([i \in 1..Len(typed) |->
               IF typed[i].v.t = "float" /\ typed[i].k \in NumericFields(lt)
               THEN [k |-> typed[i].k, v |-> VInt(typed[i].v.n)]
               ELSE typed[i]],
           1, Len(typed))

\* {k: v for k, v in typed.items() if not k.startswith("Customer_")}
WithoutCustomer(typed) ==
    DictFilter(typed, {k \in DictKeys(typed) : ~StrStartsWith(k, "Customer_")})

\* summary_requested_amount = int(typed.get(amount_field, 500000))
RequestedAmount(lt, typed) ==
    IF DictHas(typed, AmountField(lt)) THEN PyFloat(DictGet(typed, AmountField(lt))).n
    ELSE DefaultRequestedAmount

\* a policy that approves what was predicted, whatever was requested
VerdictUncapped(predicted_loan, predicted_interest, summary_requested_amount) ==
    [approved_amount |-> predicted_loan, interest_rate |-> predicted_interest,
     requested_amount |-> summary_requested_amount,
     status |-> IF predicted_loan >= summary_requested_amount THEN "APPROVED"
                ELSE "PARTIAL_APPROVAL"]

\* the verdict policy of chat_message: the "result" of the summary
VerdictResult(predicted_loan, predicted_interest, summary_requested_amount) ==
    IF predicted_loan >= summary_requested_amount
    THEN [approved_amount |-> summary_requested_amount, interest_rate |-> predicted_interest,
          requested_amount |-> summary_requested_amount, status |-> "APPROVED"]
    ELSE [approved_amount |-> predicted_loan, interest_rate |-> predicted_interest,
          requested_amount |-> summary_requested_amount, status |-> "PARTIAL_APPROVAL"]

\* customer_info of chat_message
CustomerInfo(typed) ==
    [name |-> IF DictHas(typed, "Customer_Name") THEN DictGet(typed, "Customer_Name")
              ELSE VStr("Unknown"),
     email |-> IF DictHas(typed, "Customer_Email") THEN DictGet(typed, "Customer_Email")
               ELSE VStr(""),
     phone |-> IF DictHas(typed, "Customer_Phone") THEN DictGet(typed, "Customer_Phone")
               ELSE VStr("")]

\* assistant_msg of the verdict (the emojis and the bullets are written *)
VerdictMessage(loan_type, customer_info, result) ==
    LET Text(rate, amount, email, phone) ==
       IF result.status = "APPROVED"
       THEN "* Fantastic news " \o PyStr(customer_info.name) \o "! You're PRE-APPROVED for your "
            \o StrTitle(loan_type) \o " Loan!\n\n"
            \o "* YES! You are eligible for Rs." \o amount \o " at " \o rate \o "% per annum\n\n"
            \o "* What happens next:\n"
            \o "* Your loan is pre-approved and ready for processing\n"
            \o "* Competitive interest rate of " \o rate \o "% per annum\n"
            \o "* Fast-track processing with minimal documentation\n"
            \o "* Our relationship manager will contact you within 24 hours\n\n"
            \o "* We'll reach out to you at " \o email \o " or " \o phone \o " soon!"
       ELSE "* Great news " \o PyStr(customer_info.name) \o "! You're ELIGIBLE for a "
            \o StrTitle(loan_type) \o " Loan!\n\n"
            \o "* You can get Rs." \o amount \o " at " \o rate \o "% per annum\n\n"
            \o "* Your loan offer:\n"
            \o "* Approved Amount: Rs." \o amount \o "\n"
            \o "* Interest Rate: " \o rate \o "% per annum\n"
            \o "* Pre-approved offer valid for 30 days\n"
            \o "* Flexible repayment options available\n\n"
            \o "* Want to discuss your loan requirements? Our specialist will call you!\n\n"
            \o "* We'll contact you at " \o email \o " or " \o phone \o " within 24 hours."
    IN Text(FormatHundredths(result.interest_rate), FormatGrouped(result.approved_amount),
            PyStr(customer_info.email), PyStr(customer_info.phone))

(***************************************************************************)
(* The storage manager (customer_data): the application record saved with  *)
(* a verdict and read back at the start of a turn.                         *)
(***************************************************************************)
NoRecord == [exists |-> FALSE]

\* storage_manager.save_customer_application: the record it keeps
save_customer_application(loan_type, session_id, customer_info, loan_data, prediction_result) ==
    [exists |-> TRUE, loan_type |-> loan_type, session_id |-> session_id,
     customer_info |-> customer_info, loan_data |-> loan_data,
     prediction_result |-> prediction_result]

\* storage_manager.get_application_by_session: the previous record, or none
get_application_by_session(store, loan_type, session_id) ==
    IF store[session_id].exists /\ store[session_id].loan_type = loan_type
    THEN store[session_id] ELSE NoRecord

(***************************************************************************)
(* The steps of chat_message.                                              *)
(***************************************************************************)
Message(role, content) == [role |-> role, content |-> content]

RECURSIVE LastAssistantMessage(_)
\* the content of the last assistant message of the conversation, lowered
LastAssistantMessage(conversation) ==
    IF conversation = <<>> THEN ""
    ELSE IF conversation[Len(conversation)].role = "assistant"
    THEN StrLower(conversation[Len(conversation)].content)
    ELSE LastAssistantMessage(SubSeq(conversation, 1, Len(conversation) - 1))

\* the extractor of each service
Extractor(lt, user_text, last_assistant_msg) ==
    CASE lt = "education" -> EducationFallback(user_text, last_assistant_msg)
      [] lt = "home" -> HomeFallback(user_text, last_assistant_msg)
      [] lt = "personal" -> PersonalFallback(user_text, last_assistant_msg)
      [] lt = "business" -> BusinessFallback(user_text, last_assistant_msg)
      [] lt = "gold" -> GoldFallback(user_text, last_assistant_msg)
      [] lt = "car" -> CarFallback(user_text, last_assistant_msg)

\* service._enhanced_fallback_extraction(user_text, conversation)
_enhanced_fallback_extraction(lt, user_text, conversation) ==
    Extractor(lt, user_text, LastAssistantMessage(conversation))

\* an extraction that gives up when the language model fails
ExtractWithoutFallback(lt, client, answer, user_text, conversation) ==
    IF client
    THEN Returned(IF answer.fails THEN EmptyDict ELSE answer.d)
    ELSE _enhanced_fallback_extraction(lt, user_text, conversation)

\* service.extract_info_from_response: the mapping of the language model if
\* there is a client and the model answers a non-empty mapping, the fallback
\* extractor otherwise.  answer = [fails, d].
extract_info_from_response(lt, client, answer, user_text, conversation) ==
    IF client /\ ~answer.fails /\ answer.d # EmptyDict THEN Returned(answer.d)
    ELSE _enhanced_fallback_extraction(lt, user_text, conversation)

RECURSIVE RestoreLoanData(_, _, _)
\* for k, v in loan_data.items(): restore the required fields the profile lacks
RestoreLoanData(loan_data, required_fields, user_profile) ==
    IF loan_data = <<>> THEN user_profile
    ELSE RestoreLoanData(Tail(loan_data), required_fields,
             DictSetIf(user_profile,
                       /\ Head(loan_data).k \in SeqSet(required_fields)
                       /\ ~DictHas(user_profile, Head(loan_data).k)
                       /\ Head(loan_data).v # VNone,
                       Head(loan_data).k, Head(loan_data).v))

\* the prefill of chat_message from the saved application
Prefill(saved, required_fields, user_profile) ==
    LET Restore(p, k, v) ==
            IF PyTruthy(v) /\ k \in SeqSet(required_fields) /\ ~DictHas(p, k)
            THEN DictSet(p, k, v) ELSE p
        Restored(loan_data, ci) ==
            Restore(Restore(Restore(RestoreLoanData(loan_data, required_fields, user_profile),
                                    "Customer_Name", ci.name),
                            "Customer_Email", ci.email),
                    "Customer_Phone", ci.phone)
    IN IF ~saved.exists THEN user_profile
       ELSE Restored(IF saved.loan_data # EmptyDict THEN saved.loan_data
                     ELSE saved.prediction_result.profile,
                     saved.customer_info)

\* user_profile[k] = v; recorded_now[k] = v
Stored(acc, k, v) ==
    [acc EXCEPT !.user_profile = DictSet(@, k, v), !.recorded_now = DictSet(@, k, v)]

\* the academic score is stored with the performance derived from it
Scored(acc, k, v, performance) ==
    [acc EXCEPT
        !.user_profile = DictSet(DictSet(@, k, v), "Academic_Performance", performance),
        !.recorded_now = DictSet(DictSet(@, k, v), "Academic_Performance", performance)]

\* a refused value that is stored all the same
ValidatedKeepingRefused(lt, acc, k, v, checked) ==
    IF ~checked.ok
    THEN [Stored(acc, k, v) EXCEPT !.validation_errors = Append(@, checked.msg),
                                   !.rejected = Append(@, [k |-> k, v |-> v])]
    ELSE Stored(acc, k, v)

\* a value validate_field refuses is not stored: its message is kept and the
\* loop continues with the next field
Validated(lt, acc, k, v, checked) ==
    IF ~checked.ok
    THEN [acc EXCEPT !.validation_errors = Append(@, checked.msg),
                     !.rejected = Append(@, [k |-> k, v |-> v])]
    ELSE IF k = "Academic_Score" /\ lt = "education"
    THEN Scored(acc, k, v, VStr(convert_academic_score_to_performance(PyFloat(v).n)))
    ELSE Stored(acc, k, v)

\* one extracted field: a required field with a non-empty value is validated
ProcessField(lt, acc, k, v) ==
    IF ~(k \in SeqSet(get_required_fields(lt)) /\ v # VNone /\ StrStrip(PyStr(v)) # "")
    THEN acc
    ELSE Validated(lt, acc, k, v, validate_field(lt, k, v))

RECURSIVE ProcessExtracted(_, _, _)
\* for k, v in extracted.items(): validate, then store.  acc is
\* [user_profile, recorded_now, validation_errors, rejected]; rejected lists
\* the fields whose value validate_field refused.
ProcessExtracted(lt, extracted, acc) ==
    IF extracted = <<>> THEN acc
    ELSE ProcessExtracted(lt, Tail(extracted),
                          ProcessField(lt, acc, Head(extracted).k, Head(extracted).v))

\* BusinessLoanService.validate_business_logic
validate_business_logic(collected_info) ==
    LET Compared(net_profit, annual_revenue) ==
            IF net_profit.ok /\ annual_revenue.ok /\ net_profit.n >= annual_revenue.n
            THEN Reject("VALIDATION ERROR: Net profit cannot be equal to or greater than annual revenue. Please verify your financial figures. Net profit should be the amount left after all business expenses are deducted from revenue.")
            ELSE Accept
    IN IF DictHas(collected_info, "Net_Profit") /\ DictHas(collected_info, "Annual_Revenue")
       THEN Compared(PyFloat(DictGet(collected_info, "Net_Profit")),
                     PyFloat(DictGet(collected_info, "Annual_Revenue")))
       ELSE Accept

\* clean_user_profile
clean_user_profile(user_profile) ==
    SelectSeq(user_profile, LAMBDA e : e.v # VNone /\ StrStrip(PyStr(e.v)) # "")

\* a list of missing fields that leaves out the contact details
MissingLoanFields(lt, user_profile) ==
    SelectSeq(get_required_fields(lt),
              LAMBDA f : /\ ~DictHas(user_profile, f) \/ DictGet(user_profile, f) = VNone
                         /\ ~StrStartsWith(f, "Customer_"))

\* missing_fields (and current_missing) of chat_message
MissingFields(lt, user_profile) ==
    SelectSeq(get_required_fields(lt),
              LAMBDA f : /\ ~DictHas(user_profile, f) \/ DictGet(user_profile, f) = VNone
                         /\ ~(f = "Academic_Performance" /\ DictHas(user_profile, "Academic_Score")
                              /\ lt = "education"))

(***************************************************************************)
(* The state: the configuration read at start-up, the session store, the   *)
(* saved applications, the last response and the locals of the last        *)
(* chat_message at its return.                                             *)
(***************************************************************************)
VARIABLES
    OPENAI_API_KEY,   \* TRUE when a key is configured (the services have a client)
    models,           \* TRUE when the estimator files of the services were loaded
    SESSIONS,         \* session id -> session
    storage,          \* session id -> saved application
    response,         \* the last response returned
    turn,             \* the locals of the last chat_message
    turns,            \* the number of messages sent
    input,            \* the argument of a helper called on its own
    output,           \* what the helper returned
    calls             \* the messages of the chat_message calls that have not returned

vars == <<OPENAI_API_KEY, models, SESSIONS, storage, response, turn, turns, input, output, calls>>

SessionIds == {"s1"}
NoSession == [exists |-> FALSE]
NoPrediction == [exists |-> FALSE]
NoResponse == [status |-> 0]
NoTurn == [exists |-> FALSE]
NoInput == [exists |-> FALSE]
NoOutput == [exists |-> FALSE]

\* service.get_system_prompt(): read by the language model only, its text is
\* cut down to its first words
get_system_prompt(lt) == "You are a friendly and professional " \o lt \o " loan advisor chatbot."

\* init_session
init_session(loan_type) ==
    [exists |-> TRUE, loan_type |-> loan_type,
     conversation |-> <<Message("system", get_system_prompt(loan_type))>>,
     user_profile |-> EmptyDict]

StartChatResponse(session_id, loan_type, greeting) ==
    [status |-> 200, session_id |-> session_id, loan_type |-> loan_type, message |-> greeting,
     required_fields |-> get_required_fields(loan_type)]

MessageResponse(message, missing_fields, prediction) ==
    [status |-> 200, message |-> message, recorded |-> EmptyDict,
     missing_fields |-> missing_fields, prediction |-> prediction]

HTTPException(status_code, detail) == [status |-> status_code, detail |-> detail]

Init ==
    /\ OPENAI_API_KEY \in BOOLEAN
    /\ models \in BOOLEAN
    /\ SESSIONS = [sid \in SessionIds |-> NoSession]
    /\ storage = [sid \in SessionIds |-> NoRecord]
    /\ response = NoResponse
    /\ turn = NoTurn
    /\ turns = 0
    /\ input = NoInput
    /\ output = NoOutput
    /\ calls = <<>>

\* chat_start for the lowered loan type
StartSession(loan_type, sid, replies) ==
       /\ ~SESSIONS[sid].exists
       /\ IF loan_type \notin LoanTypes
          THEN /\ response' = HTTPException(400, "Invalid loan type.")
               /\ UNCHANGED SESSIONS
          ELSE \E reply \in (IF OPENAI_API_KEY THEN replies ELSE {[fails |-> TRUE, text |-> ""]}) :
               \E greeting \in assistant_greeting(loan_type, OPENAI_API_KEY, reply) :
                  /\ SESSIONS' = [SESSIONS EXCEPT ![sid] =
                        [init_session(loan_type) EXCEPT
                            !.conversation = Append(@, Message("assistant", greeting))]]
                  /\ response' = StartChatResponse(sid, loan_type, greeting)
       /\ UNCHANGED <<OPENAI_API_KEY, models, storage, turn, turns, input, output, calls>>

\* POST /chat/start: request_loan_type is the loan_type of the request, sid
\* the fresh session id, replies what the language model may answer
chat_start(request_loan_type, sid, replies) ==
    StartSession(StrLower(request_loan_type), sid, replies)

\* the session at the return of a turn: its conversation and its profile
SessionAfter(state, conversation, user_profile) ==
    [state EXCEPT !.conversation = conversation, !.user_profile = user_profile]

\* a session that keeps its profile after the verdict
SessionKeepingProfile(state, conversation, assistant_msg) ==
    [state EXCEPT !.conversation = Append(conversation, Message("assistant", assistant_msg))]

\* the session at the return of the verdict: the profile is reset, the
\* conversation is kept and the verdict message is appended to it
SessionAfterVerdict(state, conversation, assistant_msg) ==
    [state EXCEPT !.conversation = Append(conversation, Message("assistant", assistant_msg)),
                  !.user_profile = EmptyDict]

\* the locals of chat_message at its return, before the decision engine is called
Locals(message, state, hydrated, extracted, processed, validation_errors, missing_fields) ==
    [exists |-> TRUE, message |-> message, loan_type |-> state.loan_type,
     before |-> state.user_profile, hydrated |-> hydrated, extracted |-> extracted,
     user_profile |-> processed.user_profile, recorded_now |-> processed.recorded_now,
     validation_errors |-> validation_errors, rejected |-> processed.rejected,
     missing_fields |-> missing_fields, predict_called |-> FALSE,
     prediction_input |-> EmptyDict, predicted |-> PredictionFailed, result |-> NoPrediction]

\* the locals once service.predict_loan was called
Called(locals, prediction_input, predicted) ==
    [locals EXCEPT !.predict_called = TRUE, !.prediction_input = prediction_input,
                   !.predicted = predicted]

\* if validation_errors: the first validation error is the reply
ReplyValidationError(sid, state, conversation, user_profile, error_message, current_missing, locals) ==
    /\ SESSIONS' = [SESSIONS EXCEPT ![sid] =
           SessionAfter(state, Append(conversation, Message("assistant", error_message)),
                        user_profile)]
    /\ response' = MessageResponse(error_message, current_missing, NoPrediction)
    /\ turn' = locals
    /\ UNCHANGED storage

\* the verdict is saved (a failure to save is only logged), the profile is
\* reset and the verdict message is the reply
ReplyVerdict(sid, state, conversation, customer_info, loan_data, summary, assistant_msg, called) ==
    \E save_fails \in BOOLEAN :
       /\ storage' = IF save_fails THEN storage
                     ELSE [storage EXCEPT ![sid] =
                              save_customer_application(state.loan_type, sid, customer_info,
                                                        loan_data, summary)]
       /\ SESSIONS' = [SESSIONS EXCEPT ![sid] =
              SessionAfterVerdict(state, conversation, assistant_msg)]
       /\ response' = MessageResponse(assistant_msg, <<>>, summary)
       /\ turn' = [called EXCEPT !.result = summary.result]

\* a failed prediction that resets the profile as a verdict does
PredictionErrorResetting(sid, state, conversation, user_profile, called) ==
    /\ SESSIONS' = [SESSIONS EXCEPT ![sid] = SessionAfter(state, conversation, EmptyDict)]
    /\ response' = HTTPException(500, "Prediction error")
    /\ turn' = called
    /\ UNCHANGED storage

\* service.predict_loan raised: the request ends with the HTTP error 500
ReplyPredictionError(sid, state, conversation, user_profile, called) ==
    /\ SESSIONS' = [SESSIONS EXCEPT ![sid] = SessionAfter(state, conversation, user_profile)]
    /\ response' = HTTPException(500, "Prediction error")
    /\ turn' = called
    /\ UNCHANGED storage

\* the summary of the verdict
Summary(loan_type, typed, result) ==
    [exists |-> TRUE, loan_type |-> loan_type, profile |-> SummaryProfile(loan_type, typed),
     result |-> result]

\* the verdict is saved and presented to the customer
Present(sid, state, conversation, typed, prediction_input, customer_info, result, called) ==
    ReplyVerdict(sid, state, conversation, customer_info, prediction_input,
                 Summary(state.loan_type, typed, result),
                 VerdictMessage(state.loan_type, customer_info, result), called)

\* the verdict of a prediction: the summary, the customer and the message
Verdict(sid, state, conversation, typed, prediction_input, predicted, called) ==
    Present(sid, state, conversation, typed, prediction_input, CustomerInfo(typed),
            VerdictResult(predicted.loan, predicted.rate,
                          RequestedAmount(state.loan_type, typed)),
            called)

\* the two outcomes of service.predict_loan
Decided(sid, state, conversation, user_profile, typed, prediction_input, predicted, locals) ==
    IF ~predicted.ok
    THEN ReplyPredictionError(sid, state, conversation, user_profile,
                              Called(locals, prediction_input, predicted))
    ELSE Verdict(sid, state, conversation, typed, prediction_input, predicted,
                 Called(locals, prediction_input, predicted))

\* predicted_loan, predicted_interest = service.predict_loan(prediction_input)
Predict(sid, state, conversation, user_profile, typed, prediction_input, ml, locals) ==
    Decided(sid, state, conversation, user_profile, typed, prediction_input,
            predict_loan(state.loan_type, prediction_input, models, ml), locals)

\* if not missing_fields: the profile is complete, predict and present the verdict
Decide(sid, state, conversation, user_profile, typed, ml, locals) ==
    Predict(sid, state, conversation, user_profile, typed, WithoutCustomer(typed), ml, locals)

\* if missing_fields: acknowledge what was recorded and ask for the next field
ReplyFollowup(sid, state, conversation, user_profile, missing_fields, followup, locals) ==
    /\ SESSIONS' = [SESSIONS EXCEPT ![sid] =
           SessionAfter(state, Append(conversation, Message("assistant", followup)),
                        user_profile)]
    /\ response' = MessageResponse(followup, missing_fields, NoPrediction)
    /\ turn' = locals
    /\ UNCHANGED storage

\* the three ways a turn ends: a validation error, the verdict, a follow-up
Reply(sid, state, conversation, processed, validation_errors, user_profile, missing_fields, locals, replies, estimates) ==
    IF validation_errors # <<>>
    THEN ReplyValidationError(sid, state, conversation, processed.user_profile,
                              validation_errors[1], missing_fields, locals)
    ELSE IF missing_fields = <<>>
    THEN \E ml \in estimates :
            Decide(sid, state, conversation, processed.user_profile,
                   TypedProfile(state.loan_type, user_profile), ml, locals)
    ELSE \E reply \in (IF OPENAI_API_KEY THEN replies ELSE {[fails |-> TRUE, text |-> ""]}) :
            ReplyFollowup(sid, state, conversation, processed.user_profile, missing_fields,
                          ProgressMessage(processed.recorded_now)
                              \o assistant_followup(OPENAI_API_KEY, missing_fields, reply),
                          locals)

\* validation_errors with the message of validate_business_logic
WithLogic(validation_errors, logic) ==
    IF logic.ok THEN validation_errors ELSE Append(validation_errors, logic.msg)

\* the validation errors of the fields alone
FieldErrorsOnly(loan_type, processed) == processed.validation_errors

\* validation_errors once validate_business_logic has run (business loans)
ValidationErrors(loan_type, processed) ==
    IF loan_type = "business"
    THEN WithLogic(processed.validation_errors, validate_business_logic(processed.user_profile))
    ELSE processed.validation_errors

\* the turn once the missing fields are listed
Listed(sid, message, state, hydrated, conversation, extracted, processed, validation_errors, user_profile, missing_fields, replies, estimates) ==
    Reply(sid, state, conversation, processed, validation_errors, user_profile, missing_fields,
          Locals(message, state, hydrated, extracted, processed, validation_errors,
                 missing_fields),
          replies, estimates)

\* the turn once the profile is cleaned
Cleaned(sid, message, state, hydrated, conversation, extracted, processed, user_profile, replies, estimates) ==
    Listed(sid, message, state, hydrated, conversation, extracted, processed,
           ValidationErrors(state.loan_type, processed), user_profile,
           MissingFields(state.loan_type, user_profile), replies, estimates)

\* the turn once the extracted fields are validated and stored
Processed(sid, message, state, hydrated, conversation, extracted, processed, replies, estimates) ==
    Cleaned(sid, message, state, hydrated, conversation, extracted, processed,
            clean_user_profile(processed.user_profile), replies, estimates)

\* the extracted fields are validated and stored, the profile is cleaned and
\* the missing fields are listed
Process(sid, message, state, hydrated, conversation, extracted, replies, estimates) ==
    Processed(sid, message, state, hydrated, conversation, extracted,
              ProcessExtracted(state.loan_type, extracted,
                  [user_profile |-> hydrated, recorded_now |-> EmptyDict,
                   validation_errors |-> <<>>, rejected |-> <<>>]),
              replies, estimates)

\* extracted = service.extract_info_from_response(...), {} when it raises
Extracted(extraction) == IF extraction.raised THEN EmptyDict ELSE extraction.d

\* the turn once the message is appended to the conversation
Appended(sid, message, state, saved, conversation, answer, replies, estimates) ==
    Process(sid, message, state,
            Prefill(saved, get_required_fields(state.loan_type), state.user_profile),
            conversation,
            Extracted(extract_info_from_response(state.loan_type, OPENAI_API_KEY, answer,
                                                 message, conversation)),
            replies, estimates)

\* the profile is prefilled, the message is appended to the conversation and
\* the fields are extracted from it
Extract(sid, message, state, saved, answer, replies, estimates) ==
    Appended(sid, message, state, saved, Append(state.conversation, Message("user", message)),
             answer, replies, estimates)

\* POST /chat/message.  message is the text of the request; answers, replies
\* and estimates are what the language model may extract, what it may say as
\* a follow-up and what the estimators may predict.
chat_message(sid, message, answers, replies, estimates) ==
    /\ turns' = turns + 1
    /\ UNCHANGED <<OPENAI_API_KEY, models, input, output, calls>>
    /\ IF ~SESSIONS[sid].exists
       THEN /\ response' = HTTPException(404, "Invalid session_id.")
            /\ UNCHANGED <<SESSIONS, storage, turn>>
       ELSE
       \E saved \in {NoRecord, get_application_by_session(storage, SESSIONS[sid].loan_type, sid)} :
       \E answer \in (IF OPENAI_API_KEY THEN answers ELSE {[fails |-> TRUE, d |-> EmptyDict]}) :
          Extract(sid, message, SESSIONS[sid], saved, answer, replies, estimates)

(***************************************************************************)
(* The requests and the answers of the collaborators the sessions are run  *)
(* with.                                                                   *)
(***************************************************************************)
MaxTurns == 2

Entry(k, v) == [k |-> k, v |-> v]

LLMFails == [fails |-> TRUE, d |-> EmptyDict]
LLMExtracts(d) == [fails |-> FALSE, d |-> d]
LLMSilent == [fails |-> TRUE, text |-> ""]
LLMSays(text) == [fails |-> FALSE, text |-> text]

\* the loan_type of the requests to /chat/start
StartRequests == {"personal", "Education", "home", "business", "gold", "car", "travel"}

GreetingReplies == {LLMSilent, LLMSays("Hello! May I have your full name?")}
FollowupReplies == {LLMSilent, LLMSays("Thank you. What would you like to tell me next?")}

\* an applicant, and a complete application for each product
Applicant ==
    <<Entry("Customer_Name", VStr("Riya Sharma")), Entry("Customer_Email", VStr("riya@example.com")),
      Entry("Customer_Phone", VStr("9876543210"))>>

LoanData(lt) ==
    CASE lt = "personal" ->
           <<Entry("Age", VInt(30)), Entry("Employment_Type", VStr("Salaried")),
             Entry("Employment_Duration_Years", VInt(5)), Entry("Annual_Income", VInt(600000)),
             Entry("CIBIL_Score", VInt(720)), Entry("Existing_EMIs", VInt(0)),
             Entry("Loan_Term_Years", VInt(3)), Entry("Expected_Loan_Amount", VInt(200000))>>
      [] lt = "education" ->
           <<Entry("Age", VInt(22)), Entry("Academic_Score", VInt(95)),
             Entry("Intended_Course", VStr("MBA")), Entry("University_Tier", VStr("Tier1")),
             Entry("Coapplicant_Income", VInt(600000)), Entry("Guarantor_Networth", VInt(1500000)),
             Entry("CIBIL_Score", VInt(720)), Entry("Loan_Type", VStr("Secured")),
             Entry("Loan_Term", VInt(5)), Entry("Expected_Loan_Amount", VInt(200000))>>
      [] lt = "home" ->
           <<Entry("Age", VInt(30)), Entry("Income", VInt(600000)), Entry("Guarantor_income", VInt(0)),
             Entry("Tenure", VInt(10)), Entry("CIBIL_score", VInt(720)),
             Entry("Employment_type", VStr("Salaried")), Entry("Down_payment", VInt(500000)),
             Entry("Existing_total_EMI", VInt(0)), Entry("Loan_amount_requested", VInt(2000000)),
             Entry("Property_value", VInt(3000000))>>
      [] lt = "business" ->
           <<Entry("Business_Age_Years", VInt(5)), Entry("Annual_Revenue", VInt(5000000)),
             Entry("Net_Profit", VInt(500000)), Entry("CIBIL_Score", VInt(720)),
             Entry("Business_Type", VStr("Retail")), Entry("Existing_Loan_Amount", VInt(0)),
             Entry("Loan_Tenure_Years", VInt(5)), Entry("Has_Collateral", VStr("Yes")),
             Entry("Has_Guarantor", VStr("No")), Entry("Industry_Risk_Rating", VStr("FMCG")),
             Entry("Location_Tier", VStr("Tier-1 City")), Entry("Expected_Loan_Amount", VInt(200000))>>
      [] lt = "gold" ->
           <<Entry("Age", VInt(30)), Entry("Annual_Income", VInt(600000)), Entry("CIBIL_Score", VInt(720)),
             Entry("Occupation", VStr("Salaried")), Entry("Gold_Value", VInt(300000)),
             Entry("Loan_Amount", VInt(200000)), Entry("Loan_Tenure", VInt(2))>>
      [] lt = "car" ->
           <<Entry("Age", VInt(30)), Entry("applicant_annual_salary", VInt(600000)),
             Entry("Coapplicant_Annual_Income", VInt(0)), Entry("CIBIL", VInt(720)),
             Entry("Car_Type", VStr("Sedan")), Entry("down_payment_percent", VInt(20)),
             Entry("Tenure", VInt(5)), Entry("loan_amount", VInt(200000))>>

\* the credit score field of each product
CibilField(lt) == CASE lt = "home" -> "CIBIL_score" [] lt = "car" -> "CIBIL" [] OTHER -> "CIBIL_Score"

\* the scores of the education applicants
AcademicScores == {95, 90, 80, 75, 65, 60, 40}

\* the field that holds an age in each product
AgeField(lt) == IF lt = "business" THEN "Business_Age_Years" ELSE "Age"

\* an answer that names three fields out of the required order: a credit
\* score of 600, the amount of the application and an age of 150
OutOfOrder(lt) ==
    <<Entry(CibilField(lt), VInt(600)),
      Entry(AmountField(lt), DictGet(LoanData(lt), AmountField(lt))),
      Entry(AgeField(lt), VInt(150))>>

\* what the language model may extract from one product only: an academic
\* score, a net profit above the revenue of the application, a requested
\* amount above the property value of the application
ProductAnswers(lt) ==
    CASE lt = "education" -> {LLMExtracts(<<Entry("Academic_Score", VInt(x))>>) : x \in AcademicScores}
      [] lt = "business" -> {LLMExtracts(<<Entry("Net_Profit", VInt(6000000))>>)}
      [] lt = "home" ->
           {LLMExtracts(Applicant \o DictSet(LoanData(lt), "Loan_amount_requested", VInt(4000000)))}
      [] OTHER -> {}

\* what the language model may extract from a message: nothing (it fails), a
\* complete application, the loan data without the contact details, a credit
\* score of 600, three fields out of order, and the answers of the product
Answers(lt) ==
    {LLMFails, LLMExtracts(Applicant \o LoanData(lt)), LLMExtracts(LoanData(lt)),
     LLMExtracts(<<Entry(CibilField(lt), VInt(600))>>), LLMExtracts(OutOfOrder(lt))}
    \cup ProductAnswers(lt)

\* the messages of the users
Messages(lt) ==
    {"my cibil score is 600"}
    \cup (CASE lt = "education" -> {"I scored 80 percent"}
            [] lt = "car" -> {"my annual income is 6 lakh"}
            [] lt = "personal" -> {"9876543210"}
            [] OTHER -> {})

\* what the estimators may predict: they raise, or an amount and a rate (in
\* hundredths of a percent)
Estimates ==
    {[fails |-> TRUE, loan |-> 0, rate |-> 0], [fails |-> FALSE, loan |-> 100000, rate |-> 1150],
     [fails |-> FALSE, loan |-> 200000, rate |-> 0], [fails |-> FALSE, loan |-> 2500000, rate |-> 2500]}

\* a session is opened
StartChat == \E t \in StartRequests : \E sid \in SessionIds : chat_start(t, sid, GreetingReplies)

\* a message is sent to a session of the product lt
Send(sid, lt) ==
    \E message \in Messages(lt) :
       chat_message(sid, message, Answers(lt), FollowupReplies, Estimates)

\* a message is sent to a session
SendMessage ==
    /\ turns < MaxTurns
    /\ \E sid \in SessionIds :
          Send(sid, IF SESSIONS[sid].exists THEN SESSIONS[sid].loan_type ELSE "personal")

Next == StartChat \/ SendMessage

Spec == Init /\ [][Next]_vars

(***************************************************************************)
(* The sessions of a deployment whose language model is configured and     *)
(* fails at every extraction call (an exception, a timeout, an answer      *)
(* without JSON).                                                          *)
(***************************************************************************)
OutageInit == Init /\ OPENAI_API_KEY

\* a message is sent to a session of the product lt and the extraction call fails
OutageSend(sid, lt) ==
    \E message \in Messages(lt) :
       chat_message(sid, message, {LLMFails}, FollowupReplies, Estimates)

OutageMessage ==
    /\ turns < MaxTurns
    /\ \E sid \in SessionIds :
          OutageSend(sid, IF SESSIONS[sid].exists THEN SESSIONS[sid].loan_type ELSE "personal")

OutageNext == StartChat \/ OutageMessage

OutageSpec == OutageInit /\ [][OutageNext]_vars

(***************************************************************************)
(* The sessions in fallback mode: no language model is configured, or it   *)
(* is and fails at every extraction call.  The users also send a phone     *)
(* number and a name.                                                      *)
(***************************************************************************)
FallbackMessages(lt) == Messages(lt) \cup {"9876543210", "Riya Sharma"}

\* a message is sent to a session of the product lt in fallback mode
FallbackSend(sid, lt) ==
    \E message \in FallbackMessages(lt) :
       chat_message(sid, message, {LLMFails}, FollowupReplies, Estimates)

FallbackMessage ==
    /\ turns < MaxTurns
    /\ \E sid \in SessionIds :
          FallbackSend(sid, IF SESSIONS[sid].exists THEN SESSIONS[sid].loan_type ELSE "personal")

FallbackNext == StartChat \/ FallbackMessage

FallbackSpec == Init /\ [][FallbackNext]_vars

(***************************************************************************)
(* Overlapping calls of chat_message on one session.  The endpoint is a    *)
(* plain function, which the server runs on a pool of threads, and no lock *)
(* guards SESSIONS: a thread may be suspended between two statements.  A   *)
(* call is split where it is about to call the extractor.  The calls of    *)
(* this section carry one field each, so that no profile gets complete and *)
(* the profile object of the session is the one every call holds.          *)
(***************************************************************************)
\* what the language model may extract from a message of an overlapping call
RaceAnswers(lt) == {LLMFails, LLMExtracts(<<Entry(CibilField(lt), VInt(720))>>)}

\* chat_message up to the call of the extractor: the session is read, the
\* profile is prefilled in place, the message is appended to the conversation
BeginMessage(sid, message) ==
    /\ SESSIONS[sid].exists
    /\ \E saved \in {NoRecord, get_application_by_session(storage, SESSIONS[sid].loan_type, sid)} :
          SESSIONS' = [SESSIONS EXCEPT ![sid] =
              SessionAfter(SESSIONS[sid],
                           Append(SESSIONS[sid].conversation, Message("user", message)),
                           Prefill(saved, get_required_fields(SESSIONS[sid].loan_type),
                                   SESSIONS[sid].user_profile))]
    /\ calls' = Append(calls, message)
    /\ UNCHANGED <<OPENAI_API_KEY, models, storage, response, turn, turns, input, output>>

\* chat_message from the call of the extractor to its return, on the
\* conversation and the profile the session holds by then
FinishMessage(sid, i, answers, replies, estimates) ==
    /\ calls' = SubSeq(calls, 1, i - 1) \o SubSeq(calls, i + 1, Len(calls))
    /\ turns' = turns + 1
    /\ UNCHANGED <<OPENAI_API_KEY, models, input, output>>
    /\ \E answer \in (IF OPENAI_API_KEY THEN answers ELSE {[fails |-> TRUE, d |-> EmptyDict]}) :
          Appended(sid, calls[i], SESSIONS[sid], NoRecord, SESSIONS[sid].conversation,
                   answer, replies, estimates)

\* a call begins on a session
RaceBegin ==
    /\ turns + Len(calls) < MaxTurns
    /\ \E sid \in SessionIds :
       \E message \in Messages(IF SESSIONS[sid].exists THEN SESSIONS[sid].loan_type ELSE "personal") :
          BeginMessage(sid, message)

\* a call that has begun goes on to its return
RaceFinish ==
    \E sid \in SessionIds : \E i \in DOMAIN calls :
       FinishMessage(sid, i, RaceAnswers(SESSIONS[sid].loan_type), FollowupReplies, Estimates)

RaceNext == StartChat \/ RaceBegin \/ RaceFinish

RaceSpec == Init /\ [][RaceNext]_vars

(***************************************************************************)
(* The amount helpers called on their own: an amount is written in one of  *)
(* the forms the customers use, and a helper is applied to the text.       *)
(***************************************************************************)
\* the number of tenths m as a customer writes it: "5", "1.5"
Mantissa(m) ==
    IF m % 10 = 0 THEN NatToStr(m \div 10)
    ELSE NatToStr(m \div 10) \o "." \o NatToStr(m % 10)

\* the numbers of tenths written before a unit, the plain amounts and the
\* amounts written with separators
Mantissas == {10, 15, 25, 50}
PlainAmounts == {0, 5, 720, 500000, 15000000}
GroupedAmounts == {1234, 500000, 15000000}
LakhSuffixes == {" lakh", " lakhs", " lac", "L"}
CroreSuffixes == {" crore", " cr"}

\* an amount as it is written, with the number it stands for
Written(form, text, value) == [exists |-> TRUE, form |-> form, v |-> VStr(text), value |-> value]

PureInputs ==
    {Written("lakh", Mantissa(m) \o u, m * (Lakh \div 10)) : m \in Mantissas, u \in LakhSuffixes}
    \cup {Written("crore", Mantissa(m) \o u, m * (Crore \div 10)) : m \in Mantissas, u \in CroreSuffixes}
    \cup {Written("plain", NatToStr(n), n) : n \in PlainAmounts}
    \cup {Written("grouped", FormatGrouped(n), n) : n \in GroupedAmounts}
    \cup {Written("grouped", "5,00,000", 500000), Written("grouped", "1,50,00,000", 15000000)}
    \cup {Written("unparsable", t, 0) : t \in {"", "   ", "abc", "n/a"}}
    \cup {[exists |-> TRUE, form |-> "none", v |-> VNone, value |-> 0],
          [exists |-> TRUE, form |-> "number", v |-> VInt(720), value |-> 720],
          [exists |-> TRUE, form |-> "number", v |-> VFloat(500000), value |-> 500000]}

PureInit ==
    /\ OPENAI_API_KEY = FALSE
    /\ models = FALSE
    /\ SESSIONS = [sid \in SessionIds |-> NoSession]
    /\ storage = [sid \in SessionIds |-> NoRecord]
    /\ response = NoResponse
    /\ turn = NoTurn
    /\ turns = 0
    /\ input \in PureInputs
    /\ output = NoOutput
    /\ calls = <<>>

\* what a helper returned: a number, or None
Returns(fn, ok, n) == [exists |-> TRUE, fn |-> fn, ok |-> ok, n |-> n]

\* service.convert_amount_to_number(input)
CallConvertAmount ==
    /\ output' = Returns("convert_amount_to_number", TRUE, convert_amount_to_number(input.v))
    /\ UNCHANGED <<OPENAI_API_KEY, models, SESSIONS, storage, response, turn, turns, input, calls>>

\* parse_amount(input), for a text
ParseAmountOf(text) ==
    /\ output' = Returns("parse_amount", parse_amount(text).ok, parse_amount(text).n)
    /\ UNCHANGED <<OPENAI_API_KEY, models, SESSIONS, storage, response, turn, turns, input, calls>>

CallParseAmount == input.v.t = "str" /\ ParseAmountOf(input.v.s)

\* _to_float(input)
CallToFloat ==
    /\ output' = Returns("_to_float", TRUE, _to_float(input.v))
    /\ UNCHANGED <<OPENAI_API_KEY, models, SESSIONS, storage, response, turn, turns, input, calls>>

PureNext == CallConvertAmount \/ CallParseAmount \/ CallToFloat

PureSpec == PureInit /\ [][PureNext]_vars

(***************************************************************************)
(* The validators and the feature construction called on their own, on a   *)
(* credit score and on the categorical fields whose code mapping is part   *)
(* of the source (business and car).                                       *)
(***************************************************************************)
FieldInput(lt, field, v) == [exists |-> TRUE, lt |-> lt, field |-> field, v |-> v]

ScoreValues == {250, 299, 300, 600, 649, 650, 900, 901}

\* the values of a categorical field: those of the validator and of the mapping
CategoryInputs(lt, field, values) == {FieldInput(lt, field, VStr(x)) : x \in values}

ValidatorInputs ==
    {FieldInput(lt, CibilField(lt), VInt(x)) : lt \in LoanTypes, x \in ScoreValues}
    \cup CategoryInputs("business", "Business_Type", SeqSet(BusinessTypes))
    \cup CategoryInputs("business", "Industry_Risk_Rating",
                        SeqSet(BusinessIndustries) \cup IndustryRiskMap)
    \cup CategoryInputs("business", "Location_Tier", SeqSet(BusinessLocations) \cup LocationTierMap)
    \cup CategoryInputs("car", "Car_Type", SeqSet(CarTypes) \cup CarTypeMap)

ValidatorInit ==
    /\ OPENAI_API_KEY = FALSE
    /\ models = TRUE
    /\ SESSIONS = [sid \in SessionIds |-> NoSession]
    /\ storage = [sid \in SessionIds |-> NoRecord]
    /\ response = NoResponse
    /\ turn = NoTurn
    /\ turns = 0
    /\ input \in ValidatorInputs
    /\ output = NoOutput
    /\ calls = <<>>

\* what validate_field or predict_loan returned
Answered(fn, result) == [exists |-> TRUE, fn |-> fn, ok |-> result.ok, msg |-> result.msg]

\* service.validate_field(field, value)
CallValidateField ==
    /\ output' = Answered("validate_field", validate_field(input.lt, input.field, input.v))
    /\ UNCHANGED <<OPENAI_API_KEY, models, SESSIONS, storage, response, turn, turns, input, calls>>

\* service.predict_loan for the application of the product with the value
\* of the field, the estimators giving an amount and a rate
CallPredictLoan ==
    /\ \E ml \in {e \in Estimates : ~e.fails} :
          output' = Answered("predict_loan",
                             [ok |-> predict_loan(input.lt,
                                                  DictSet(LoanData(input.lt), input.field, input.v),
                                                  models, ml).ok,
                              msg |-> ""])
    /\ UNCHANGED <<OPENAI_API_KEY, models, SESSIONS, storage, response, turn, turns, input, calls>>

ValidatorNext == CallValidateField \/ CallPredictLoan

ValidatorSpec == ValidatorInit /\ [][ValidatorNext]_vars

(***************************************************************************)
(* The personal loan application of one customer: the answers are sent one *)
(* per turn in the order of the required fields.  With a language model it *)
(* extracts the field the answer is about; the amounts come back as a      *)
(* number or as the digits of the number.                                  *)
(***************************************************************************)
Answer(field, text, values) == [field |-> field, text |-> text, values |-> values]

FlowScript ==
    <<Answer("Customer_Name", "Riya Sharma", {VStr("Riya Sharma")}),
      Answer("Customer_Email", "riya@example.com", {VStr("riya@example.com")}),
      Answer("Customer_Phone", "9876543210", {VStr("9876543210")}),
      Answer("Age", "30", {VInt(30)}),
      Answer("Employment_Type", "Salaried", {VStr("Salaried")}),
      Answer("Employment_Duration_Years", "5", {VInt(5)}),
      Answer("Annual_Income", "6 lakh", {VInt(600000), VStr("600000")}),
      Answer("CIBIL_Score", "720", {VInt(720)}),
      Answer("Existing_EMIs", "0", {VInt(0)}),
      Answer("Loan_Term_Years", "3", {VInt(3)}),
      Answer("Expected_Loan_Amount", "2 lakh", {VInt(200000), VStr("200000")})>>

\* the estimators are available: they predict an amount and a rate
FlowEstimates == {ml \in Estimates : ~ml.fails}

\* the session of the application is opened
FlowStart == chat_start("personal", "s1", GreetingReplies)

\* the answer is sent
FlowSend(answer) ==
    chat_message("s1", answer.text,
                 {LLMExtracts(<<Entry(answer.field, v)>>) : v \in answer.values},
                 {LLMSays("Thank you. What would you like to tell me next?")}, FlowEstimates)

\* the next answer of the script is sent
FlowTurn ==
    /\ SESSIONS["s1"].exists
    /\ turns < Len(FlowScript)
    /\ FlowSend(FlowScript[turns + 1])

FlowNext == FlowStart \/ FlowTurn

FlowSpec == Init /\ [][FlowNext]_vars

(***************************************************************************)
(* The properties of the sessions.                                        *)
(***************************************************************************)
\* the field f has a value in the profile
Known(user_profile, f) == DictHas(user_profile, f) /\ DictGet(user_profile, f) # VNone

\* the last turn ended with a verdict
VerdictGiven == turn.exists /\ turn.result # NoPrediction

\* C1: the decision engine is invoked in a turn only if, after the
\* extraction and the storage of that turn, every required field of the
\* product has a value in the profile (a derived field counts as present
\* when its source is present).
C1_PredictOnlyWhenComplete ==
    turn.exists /\ turn.predict_called =>
       \A f \in SeqSet(get_required_fields(turn.loan_type)) :
          \/ Known(turn.user_profile, f)
          \/ f = "Academic_Performance" /\ Known(turn.user_profile, "Academic_Score")

C1_Witness == turn.exists /\ turn.predict_called /\ turns = 2 /\ turn.extracted # <<>>

\* the amount the customer asked for, as the decision engine received it
RequestedOf(t) == DictGet(t.prediction_input, AmountField(t.loan_type)).n

\* C2: a prediction p for a requested amount r gives APPROVED with the
\* approved amount r when p >= r, and PARTIAL_APPROVAL with the approved
\* amount p when p < r; the approved amount never exceeds the requested one.
C2_VerdictPolicy ==
    VerdictGiven =>
       /\ turn.result.requested_amount = RequestedOf(turn)
       /\ turn.predicted.loan >= RequestedOf(turn) =>
             turn.result.status = "APPROVED" /\ turn.result.approved_amount = RequestedOf(turn)
       /\ turn.predicted.loan < RequestedOf(turn) =>
             /\ turn.result.status = "PARTIAL_APPROVAL"
             /\ turn.result.approved_amount = turn.predicted.loan
       /\ turn.result.approved_amount <= RequestedOf(turn)

C2_Witness ==
    VerdictGiven /\ turn.predicted.loan > RequestedOf(turn) /\ turn.result.status = "APPROVED"

\* the conversation after is the conversation before with the message of
\* the user and one message of the assistant
Gained(before, after, message) ==
    /\ Len(after) = Len(before) + 2
    /\ SubSeq(after, 1, Len(before)) = before
    /\ after[Len(before) + 1] = Message("user", message)
    /\ after[Len(before) + 2].role = "assistant"

\* C3: when a turn returns a verdict the profile of the session is empty
\* and the conversation keeps every earlier entry in order: it gains the
\* message of the user and the verdict message, nothing else.
C3_VerdictResetsProfileOnly ==
    [][\A sid \in SessionIds :
          (turns' = turns + 1 /\ SESSIONS[sid].exists /\ turn'.exists /\ turn'.result # NoPrediction)
          => /\ SESSIONS'[sid].user_profile = EmptyDict
             /\ Gained(SESSIONS[sid].conversation, SESSIONS'[sid].conversation, turn'.message)
             /\ SESSIONS'[sid].conversation[Len(SESSIONS'[sid].conversation)].content
                   = response'.message]_vars

C3_Witness ==
    VerdictGiven /\ turn.before # EmptyDict /\ Len(SESSIONS["s1"].conversation) = 6

\* the products that require a credit score of 650
Minimum650 == LoanTypes \ {"gold"}

\* the value of field k in a profile, None when it has none
Value(user_profile, k) == DictGetOrNone(user_profile, k)

\* C4: a value validate_field rejects is not written to the profile in that
\* turn; a credit score of 600 sent for a product whose minimum is 650 is
\* rejected with the ineligibility message, and the credit score entry of
\* the profile stays exactly as it was before the turn.
C4_RejectedNeverWritten ==
    turn.exists =>
       /\ \A i \in 1..Len(turn.rejected) :
             Value(turn.user_profile, turn.rejected[i].k) # turn.rejected[i].v
       /\ (turn.loan_type \in Minimum650
           /\ Value(turn.extracted, CibilField(turn.loan_type)) = VInt(600)) =>
             /\ turn.rejected # <<>>
             /\ turn.rejected[1] = [k |-> CibilField(turn.loan_type), v |-> VInt(600)]
             /\ response.status = 200 /\ response.message = turn.validation_errors[1]
             /\ StrContains(response.message, "650")
             /\ response.prediction = NoPrediction
             /\ Value(turn.user_profile, CibilField(turn.loan_type))
                   = Value(turn.before, CibilField(turn.loan_type))

\* the band of an academic score
Band(s) ==
    IF 90 <= s /\ s <= 100 THEN "Excellent"
    ELSE IF 75 <= s /\ s < 90 THEN "Good"
    ELSE IF 60 <= s /\ s < 75 THEN "Average"
    ELSE "Poor"

\* C5: for the education product, after a turn stores Academic_Score = s,
\* Academic_Performance is not in the list of missing fields and is
\* Excellent for 90..100, Good for 75..<90, Average for 60..<75, Poor otherwise.
C5_DerivedPerformance ==
    (turn.exists /\ turn.loan_type = "education" /\ DictHas(turn.recorded_now, "Academic_Score"))
    => /\ "Academic_Performance" \notin SeqSet(turn.missing_fields)
       /\ response.status = 200 => "Academic_Performance" \notin SeqSet(response.missing_fields)
       /\ Value(turn.user_profile, "Academic_Performance")
             = VStr(Band(DictGet(turn.recorded_now, "Academic_Score").n))
       /\ Value(SESSIONS["s1"].user_profile, "Academic_Performance")
             \in {VNone, VStr(Band(DictGet(turn.recorded_now, "Academic_Score").n))}

C5_Witness ==
    /\ turn.exists /\ turn.loan_type = "education"
    /\ Value(turn.recorded_now, "Academic_Score") = VInt(75)
    /\ Value(SESSIONS["s1"].user_profile, "Academic_Performance") = VStr("Good")

(***************************************************************************)
(* The properties of the amount helpers.                                   *)
(***************************************************************************)
\* C6: convert_amount_to_number of the products and parse_amount of the
\* base extractor map "5 lakh" to 500000, "1.5 crore" to 15000000 and
\* "5,00,000" to 500000.
C6_AmountNormalization ==
    (/\ output.exists
     /\ output.fn \in {"convert_amount_to_number", "parse_amount"}
     /\ input.v \in {VStr("5 lakh"), VStr("1.5 crore"), VStr("5,00,000")})
    => output.ok /\ output.n = input.value

\* C7: _to_float returns the number a text stands for when the text is a
\* number with thousands separators, a number with a lakh or crore suffix or
\* a bare number, and 0 for None, for an empty text and for a text that
\* cannot be read.
C7_ToFloat ==
    output.exists /\ output.fn = "_to_float" => output.ok /\ output.n = input.value

C7_Witness ==
    /\ output.exists /\ output.fn = "_to_float"
    /\ input.v = VStr("1,50,00,000") /\ output.n = 15000000

(***************************************************************************)
(* The properties of the personal loan application.                        *)
(***************************************************************************)
\* every answer of the script was sent
FlowDone == turns = Len(FlowScript)

\* C8: the answers of the personal loan application sent one per turn in
\* the required order, with the scoring model available and the language
\* model extracting each answer: the final turn returns a verdict APPROVED
\* or PARTIAL_APPROVAL with a positive interest rate, and the profile of
\* the session is empty afterwards.
C8_FlowReachesVerdict ==
    (OPENAI_API_KEY /\ models /\ FlowDone) =>
       /\ VerdictGiven
       /\ response.status = 200 /\ response.prediction.exists
       /\ response.prediction.result.status \in {"APPROVED", "PARTIAL_APPROVAL"}
       /\ response.prediction.result.interest_rate > 0
       /\ SESSIONS["s1"].user_profile = EmptyDict

C8_Witness ==
    /\ OPENAI_API_KEY /\ models /\ FlowDone /\ VerdictGiven
    /\ response.prediction.result.status = "PARTIAL_APPROVAL"
    /\ response.prediction.profile # EmptyDict

\* C9: without a language model the same answers still reach a verdict:
\* each answer is stored in the turn that sends it, and the final turn
\* invokes the decision engine.
C9_FallbackFlowReachesVerdict ==
    (~OPENAI_API_KEY /\ turn.exists) =>
       /\ Known(turn.user_profile, FlowScript[turns].field)
       /\ FlowDone => turn.predict_called

\* the last turn stored one field, rejected nothing and asked for the next
StoredOneField ==
    /\ turn.exists /\ Len(turn.recorded_now) = 1
    /\ turn.validation_errors = <<>> /\ turn.missing_fields # <<>>

\* C10: the same valid answer about one field sent in two successive turns
\* gives the same stored value, the same missing fields and the same next
\* question.
C10_SameAnswerTwice ==
    [][(/\ ~OPENAI_API_KEY
        /\ StoredOneField
        /\ turns' = turns + 1
        /\ turn'.message = turn.message)
       => /\ turn'.user_profile = turn.user_profile
          /\ turn'.missing_fields = turn.missing_fields
          /\ response'.status = 200
          /\ response'.missing_fields = response.missing_fields]_vars

(***************************************************************************)
(* The properties of a turn that rejects a value.                          *)
(***************************************************************************)
\* the rejected fields of the turn t in the required order of its product
RejectedInOrder(t) ==
    SelectSeq(get_required_fields(t.loan_type),
              LAMBDA f : \E i \in DOMAIN t.rejected : t.rejected[i].k = f)

\* the rejected field that comes first in the required order
FirstRejected(t) == CHOOSE e \in SeqSet(t.rejected) : e.k = RejectedInOrder(t)[1]

\* the position in extracted of the field the loop rejected first
RejectedAt(t) == CHOOSE i \in DOMAIN t.extracted :
                    /\ t.extracted[i] = t.rejected[1]
                    /\ \A j \in 1..(i - 1) : t.extracted[j] # t.rejected[1]

\* C11: when several extracted fields fail validation, the message returned
\* is the rejection of the failing field that comes first in the required
\* order of the product, and every extracted field that passed validation
\* before it is committed to the profile.
C11_FirstRejectionInRequiredOrder ==
    (turn.exists /\ turn.rejected # <<>>) =>
       /\ response.status = 200
       /\ response.message =
             validate_field(turn.loan_type, FirstRejected(turn).k, FirstRejected(turn).v).msg
       /\ \A i \in 1..(RejectedAt(turn) - 1) :
             DictHas(turn.recorded_now, turn.extracted[i].k)
                => Value(turn.user_profile, turn.extracted[i].k) = turn.extracted[i].v

\* C16: once an extracted field is rejected in a turn, no extracted field
\* processed after it is written in that turn.
C16_NothingWrittenAfterRejection ==
    (turn.exists /\ turn.rejected # <<>>) =>
       \A i \in DOMAIN turn.extracted :
          i > RejectedAt(turn) => ~DictHas(turn.recorded_now, turn.extracted[i].k)

\* the number of the field f of the profile
Number(user_profile, f) == PyFloat(DictGet(user_profile, f)).n

\* the requested amount of a home loan is above the value of the property
ExceedsProperty(user_profile) ==
    /\ Known(user_profile, "Loan_amount_requested") /\ Known(user_profile, "Property_value")
    /\ Number(user_profile, "Loan_amount_requested") > Number(user_profile, "Property_value")

\* the net profit of a business is not below its revenue
ProfitNotBelowRevenue(user_profile) ==
    /\ Known(user_profile, "Net_Profit") /\ Known(user_profile, "Annual_Revenue")
    /\ Number(user_profile, "Net_Profit") >= Number(user_profile, "Annual_Revenue")

\* C18: in a home loan turn where no single field is rejected and the
\* requested amount is above the property value, the reply of the assistant
\* is the cross-field rejection message and the decision engine is not
\* invoked.
C18_HomeAmountAbovePropertyRejected ==
    (/\ turn.exists /\ turn.loan_type = "home"
     /\ turn.rejected = <<>> /\ ExceedsProperty(turn.user_profile)) =>
       /\ ~turn.predict_called
       /\ response.status = 200
       /\ response.message = validate_complete_data(turn.user_profile).msg

\* a cross-field rule of the product rejects the profile of the turn t
CrossFieldRejected(t) ==
    \/ t.loan_type = "business" /\ ProfitNotBelowRevenue(t.user_profile)
    \/ t.loan_type = "home" /\ ExceedsProperty(t.user_profile)

\* the messages of the rejections of the turn t
RejectionMessages(t) ==
    {validate_field(t.loan_type, e.k, e.v).msg : e \in SeqSet(t.rejected)}
    \cup (IF t.loan_type = "business" /\ ProfitNotBelowRevenue(t.user_profile)
          THEN {validate_business_logic(t.user_profile).msg} ELSE {})
    \cup (IF t.loan_type = "home" /\ ExceedsProperty(t.user_profile)
          THEN {validate_complete_data(t.user_profile).msg} ELSE {})

\* the required fields the profile does not hold
StillMissing(lt, user_profile) ==
    SelectSeq(get_required_fields(lt), LAMBDA f : ~Known(user_profile, f))

\* C12: a turn with a single-field or a cross-field rejection returns a
\* rejection message with the current missing fields and does not invoke
\* the decision engine, even when the profile is complete after the turn.
C12_RejectionEndsTurn ==
    (turn.exists /\ (turn.rejected # <<>> \/ CrossFieldRejected(turn))) =>
       /\ ~turn.predict_called
       /\ response.status = 200
       /\ response.message \in RejectionMessages(turn)
       /\ response.missing_fields = StillMissing(turn.loan_type, turn.user_profile)
       /\ response.prediction = NoPrediction

\* the message of the cross-field rule of the business product
ProfitMessage == validate_business_logic(<<Entry("Net_Profit", VInt(1)), Entry("Annual_Revenue", VInt(1))>>).msg

DecisionFailed(t) == t.exists /\ t.predict_called /\ ~t.predicted.ok

\* C13: a turn whose decision fails leaves the profile of the session as
\* the turn collected it (not reset, nothing added, removed or altered) and
\* saves nothing; a next turn that records and rejects nothing invokes the
\* decision engine again with the same profile.
C13_FailedDecisionKeepsProfile ==
    [][turns' = turns + 1 =>
          /\ DecisionFailed(turn') =>
                /\ SESSIONS'["s1"].user_profile = turn'.user_profile
                /\ turn'.user_profile # EmptyDict
                /\ \A e \in SeqSet(turn'.prediction_input) :
                      Known(SESSIONS'["s1"].user_profile, e.k)
                /\ storage' = storage
                /\ response'.status = 500
          /\ (/\ DecisionFailed(turn) /\ turn'.exists
              /\ turn'.recorded_now = EmptyDict /\ turn'.validation_errors = <<>>) =>
                /\ turn'.predict_called
                /\ turn'.user_profile = turn.user_profile
                /\ turn'.prediction_input = turn.prediction_input]_vars

\* the decision failed in two successive turns, the second with the profile
\* the first one left
C13_Witness ==
    /\ DecisionFailed(turn) /\ turns = 2
    /\ turn.recorded_now = EmptyDict /\ turn.before = turn.user_profile
    /\ SESSIONS["s1"].user_profile = turn.user_profile /\ turn.user_profile # EmptyDict

\* C14: for every product, when the scoring model is not loaded, the turn
\* that completes the profile ends in a reported error: the decision engine
\* fails, no verdict and no amount or rate is returned and no application
\* is handed to the storage.
C14_NoModelNoVerdict ==
    (/\ ~models /\ turn.exists
     /\ turn.missing_fields = <<>> /\ turn.validation_errors = <<>>) =>
       /\ DecisionFailed(turn)
       /\ turn.result = NoPrediction
       /\ response = HTTPException(500, "Prediction error")
       /\ storage["s1"] = NoRecord

\* an education loan turn completes the profile without a scoring model
C14_Witness ==
    /\ ~models /\ DecisionFailed(turn) /\ turn.loan_type = "education"
    /\ turn.missing_fields = <<>> /\ turn.recorded_now # EmptyDict
    /\ response.status = 500

(***************************************************************************)
(* The properties of a failed extraction call.                             *)
(***************************************************************************)
\* the conversation the extractor of the last turn was called with: the
\* conversation of the session without the reply of the turn
ConversationRead ==
    SubSeq(SESSIONS["s1"].conversation, 1, Len(SESSIONS["s1"].conversation) - 1)

AmountWithin(lt, loan) ==
    CASE lt = "business" -> 100000 <= loan /\ loan <= 100000000
      [] lt = "personal" -> 50000 <= loan /\ loan <= 2000000
      [] lt = "car" -> 100000 <= loan /\ loan <= 50000000
      [] lt = "gold" -> 5000 <= loan
      [] OTHER -> 0 <= loan

\* the band of the interest rate of each product, in hundredths of a
\* percent; 8 to 24 percent where the product names none
RateWithin(lt, rate) ==
    CASE lt = "personal" -> 800 <= rate /\ rate <= 1800
      [] lt = "car" -> 700 <= rate /\ rate <= 2000
      [] OTHER -> 800 <= rate /\ rate <= 2400

\* C20: for all six products the amount and the interest rate predict_loan
\* returns lie within the bounds of the product whatever the scoring model
\* outputs: no product returns the output of the model unclamped.
C20_PredictionWithinBounds ==
    (turn.exists /\ turn.predict_called /\ turn.predicted.ok) =>
       /\ AmountWithin(turn.loan_type, turn.predicted.loan)
       /\ RateWithin(turn.loan_type, turn.predicted.rate)

(***************************************************************************)
(* The properties of overlapping calls.                                    *)
(***************************************************************************)
\* C17: two overlapping chat_message calls on one session leave the session
\* as running them one after the other in some order does: once both have
\* returned, every reply of the assistant in the conversation directly
\* follows the message of the user it answers, so that no two replies are
\* next to each other.
C17_OverlappingTurnsSerialized ==
    (SESSIONS["s1"].exists /\ calls = <<>>) =>
       \A i \in 2..Len(SESSIONS["s1"].conversation) :
          SESSIONS["s1"].conversation[i].role = "assistant"
             => SESSIONS["s1"].conversation[i - 1].role # "assistant"

\* no overlapping call reaches the decision engine: the profile object of the
\* session is never replaced while a call holds it
RaceNoVerdict == turn.exists => ~turn.predict_called

(***************************************************************************)
(* The properties of the follow-up.                                        *)
(***************************************************************************)
\* the turn ended with a follow-up: nothing was rejected, a field is missing
FollowedUp(t) == t.exists /\ t.validation_errors = <<>> /\ t.missing_fields # <<>>

\* the deterministic question for the field f
TemplateFor(f) == get_fallback_followup(<<f>>)

ScoreValidated ==
    /\ output.exists /\ output.fn = "validate_field"
    /\ input.lt \in Minimum650 \ {"education"} /\ input.field = CibilField(input.lt)

\* C22: for the personal, business, home and car products a credit score
\* outside 300-900 is rejected with the message that asks to reconfirm it,
\* and a score inside 300-900 and below 650 with the ineligibility message.
C22_ScoreRejectionReasons ==
    ScoreValidated =>
       /\ (input.v.n < 300 \/ input.v.n > 900) =>
             ~output.ok /\ StrContains(output.msg, "between 300 and 900")
       /\ (300 <= input.v.n /\ input.v.n < 650) =>
             ~output.ok /\ StrContains(output.msg, "minimum CIBIL score of 650")

\* C28: every categorical value validate_field accepts is a key of the
\* mapping of the decision engine: the application with a validated value
\* is scored.
C28_ValidatedCategoriesAreScored ==
    (/\ output.exists /\ output.fn = "predict_loan"
     /\ validate_field(input.lt, input.field, input.v).ok) => output.ok

(***************************************************************************)
(* The properties of the fallback extractor.                               *)
(***************************************************************************)
\* C23: in fallback mode, for every product, the message "9876543210" makes
\* the extractor return a mapping whose Customer_Phone is these digits, and
\* the turn stores the phone number.
C23_FallbackExtractsPhone ==
    (turn.exists /\ turn.message = "9876543210") =>
       /\ Value(turn.extracted, "Customer_Phone") = VStr("9876543210")
       /\ Value(turn.user_profile, "Customer_Phone") = VStr("9876543210")

\* C24: in fallback mode a bare alphabetic answer is extracted as
\* Customer_Name only when the last message of the assistant asked for a
\* name, and the answer "Salaried" to another question leaves a stored
\* Customer_Name as it was.
C24_NameOnlyWhenAsked ==
    [][(~OPENAI_API_KEY /\ turns' = turns + 1 /\ SESSIONS["s1"].exists
        /\ ~StrContains(LastAssistantMessage(SESSIONS["s1"].conversation), "name")
        /\ ~StrContains(LastAssistantMessage(SESSIONS["s1"].conversation), "call you"))
       => /\ ~DictHas(turn'.extracted, "Customer_Name")
          /\ Value(SESSIONS'["s1"].user_profile, "Customer_Name")
                = Value(SESSIONS["s1"].user_profile, "Customer_Name")]_vars

\* C25: for the car product in fallback mode an income is extracted as
\* Coapplicant_Annual_Income only when the last message of the assistant
\* asked about the co-applicant, also when that message begins with the
\* acknowledgement of the fields recorded in the turn before; otherwise it
\* is the salary of the applicant.
C25_CoapplicantOnlyWhenAsked ==
    (/\ turn.exists /\ turn.loan_type = "car" /\ response.status = 200
     /\ DictHas(turn.extracted, "Coapplicant_Annual_Income"))
    => \/ StrContains(LastAssistantMessage(ConversationRead), "coapplicant")
       \/ StrContains(LastAssistantMessage(ConversationRead), "co-applicant")

(***************************************************************************)
(* The properties of the turns after a rejection or a verdict.             *)
(***************************************************************************)
\* the turn t rejected a value of the field f
RejectedField(t, f) == t.exists /\ \E i \in DOMAIN t.rejected : t.rejected[i].k = f

C27_NoSecondVerdictWithoutFields ==
    [][(/\ VerdictGiven /\ storage["s1"].exists
        /\ turns' = turns + 1 /\ turn'.exists /\ turn'.extracted = EmptyDict)
       => /\ turn'.before = EmptyDict
          /\ turn'.missing_fields = get_required_fields(turn'.loan_type)
          /\ ~turn'.predict_called]_vars

\* C29: at the end of every turn of a business session the profile does not
\* hold a net profit that is not below the annual revenue: the value whose
\* storage made the cross-field rule reject the turn is not left in it.
C29_RefusedProfitNotKept ==
    (turn.exists /\ turn.loan_type = "business") =>
       ~ProfitNotBelowRevenue(SESSIONS["s1"].user_profile)

\* C30: every chat_message call that appends the message of the user also
\* appends one message of the assistant: after the system prompt and the
\* greeting the conversation alternates user and assistant, and it ends
\* with a message of the assistant.
C30_ConversationAlternates ==
    SESSIONS["s1"].exists =>
       /\ SESSIONS["s1"].conversation[Len(SESSIONS["s1"].conversation)].role = "assistant"
       /\ \A i \in 3..Len(SESSIONS["s1"].conversation) :
             SESSIONS["s1"].conversation[i].role = (IF i % 2 = 1 THEN "user" ELSE "assistant")

====
